---- MODULE Spec2Model ----
(***************************************************************************)
(* A model of the descriptor layer of the reactor (ext/ed.cpp), as built   *)
(* on Linux: OS_UNIX, HAVE_EPOLL, HAVE_WRITEV, HAVE_INOTIFY.               *)
(*                                                                         *)
(* Every C++ method is an operator that maps a "world" W (the descriptor   *)
(* table, the Reactor's pending-close counter, the trace of the calls and  *)
(* callbacks made so far, the exception raised) to the world after the     *)
(* call.  An action is one entry into the descriptor layer from outside    *)
(* (the Reactor's wake, or the application's API call): it commits the     *)
(* world the method returns.  What the OS answers to a system call is an   *)
(* input of the action.                                                    *)
(***************************************************************************)
EXTENDS Integers, Sequences, FiniteSets, TLC

VARIABLES
    desc,               \* descriptor id -> the object's fields
    NumCloseScheduled,  \* EventMachine_t::NumCloseScheduled
    now,                \* EventMachine_t::GetCurrentLoopTime(), microseconds
    trace,              \* what the last operation called, in order
    fault,              \* the exception the last operation raised ("" = none)
    last,               \* the last operation: its name, target and arguments
    wire,               \* id -> bytes the socket has accepted, in order
    queued,             \* id -> bytes the sends have queued, in order
    nDeregister,        \* id -> number of Reactor Deregister calls so far
    nRelease,           \* id -> number of OS close() calls on its handle
    px                  \* id -> what its proxy has done since StartProxy

vars == <<desc, NumCloseScheduled, now, trace, fault, last, wire, queued,
          nDeregister, nRelease, px>>

----------------------------------------------------------------------------
(* Program constants. *)

INVALID_SOCKET == -1
NULL == 0
\* errno values (Linux); EWOULDBLOCK is EAGAIN there.
EINTR == 4
EAGAIN == 11
EPROTO == 71
ECONNRESET == 104
ETIMEDOUT == 110
EINPROGRESS == 115
\* the most pages one writev gathers
MaxIov == 16
\* the most read attempts of one Read wake, and datagrams of one Write wake
MaxBurst == 10
\* EventableDescriptor's initial PendingConnectTimeout, microseconds
DefaultPendingConnectTimeout == 20000000

(* Bounds of the model. *)

\* the Reactor's timer quantum, milliseconds (it accepts none below 5)
TimerQuantumMs == 5

\* the longest payload of one send, and the longest inbound chunk
MaxSendLen == 2
\* the most bytes the application queues on one descriptor
MaxBytes == 2
\* the most pages a descriptor's queue is let grow to by sends
MaxPages == 2

Ids == DOMAIN desc

----------------------------------------------------------------------------
(* Sequences. *)

RECURSIVE SumLens(_)
SumLens(s) == IF s = <<>> THEN 0 ELSE Len(Head(s)) + SumLens(Tail(s))

RECURSIVE Flatten(_)
Flatten(s) == IF s = <<>> THEN <<>> ELSE Head(s) \o Flatten(Tail(s))

Min(a, b) == IF a < b THEN a ELSE b

IsPrefix(s, t) == Len(s) <= Len(t) /\ SubSeq(t, 1, Len(s)) = s

\* the n bytes that follow the k bytes already produced: byte i of a stream
\* carries its position, so that loss, duplication and reordering all show
Bytes(k, n) == [i \in 1..n |-> k + i]

----------------------------------------------------------------------------
(* The world. *)

\* a call or a callback: its name, the descriptor, a number (a count, an
\* errno, a handle), the bytes it carries and one more argument (the peer
\* address, the other descriptor, writev's iovcnt)
EvA(t, d, n, data, a) == [t |-> t, d |-> d, n |-> n, data |-> data, a |-> a]

Ev(t, d, n, data) == EvA(t, d, n, data, 0)

Emit(W, e) == [W EXCEPT !.ev = Append(@, e)]

Throw(W, msg) == [W EXCEPT !.fault = msg]

Ok(W) == W.fault = ""

SetF(W, id, f, v) == [W EXCEPT !.desc[id][f] = v]

Ret(W, v) == [W EXCEPT !.ret = v]

World == [desc |-> desc, ncs |-> NumCloseScheduled, ev |-> <<>>,
          fault |-> "", ret |-> 0]

\* the rest K of a method, run on the world V its first part left
Bind(V, K(_)) == K(V)

\* a statement S that an exception raised before it skips
Then(V, S(_)) == IF Ok(V) THEN S(V) ELSE V

\* struct OutboundPage: Buffer (Length = Len(Buffer)), Offset, From
OutboundPage(buf, from) == [Buffer |-> buf, Offset |-> 0, From |-> from]

PageLeft(p) == Len(p.Buffer) - p.Offset

\* SslBox_t, the TLS adaptor, as ConnectionDescriptor sees it: whether the
\* handshake is completed, the ciphertext chunks it has ready, the chunks it
\* has produced so far, and what its next calls will answer: GetPlaintext
\* (<<s, h>>: s bytes of plaintext, 0 for none, -1 for an error, -2 for a
\* failed handshake; h, that this call completed the handshake) and
\* PutPlaintext (w > 0 for plaintext taken and turned into a chunk of
\* ciphertext, 0 for none, w < 0 for a fatal error)
NoSsl == [done |-> FALSE, ct |-> 0, out |-> 0, plain |-> <<>>, put |-> <<>>]

----------------------------------------------------------------------------
(* EventableDescriptor *)

\* the constructor's member initialisers; the subclasses' follow
EventableDescriptor(kind, sd, t) ==
    [kind |-> kind, live |-> TRUE,
     bCloseNow |-> FALSE, bCloseAfterWriting |-> FALSE,
     MySocket |-> sd, bAttached |-> FALSE, bWatchOnly |-> FALSE,
     bCallbackUnbind |-> TRUE, UnbindReasonCode |-> 0,
     ProxyTarget |-> NULL, ProxiedFrom |-> NULL, ProxiedBytes |-> 0,
     BytesToProxy |-> 0, MaxOutboundBufSize |-> 0,
     PendingConnectTimeout |-> DefaultPendingConnectTimeout,
     InactivityTimeout |-> 0, NextHeartbeat |-> 0, bPaused |-> FALSE,
     CreatedAt |-> t, LastActivity |-> t,
     epollIn |-> FALSE, epollOut |-> FALSE,
     \* ConnectionDescriptor, DatagramDescriptor
     bConnectPending |-> FALSE, bNotifyReadable |-> FALSE,
     bNotifyWritable |-> FALSE, bReadAttemptedAfterClose |-> FALSE,
     bWriteAttemptedAfterClose |-> FALSE,
     OutboundPages |-> <<>>, OutboundDataSize |-> 0,
     ReturnAddress |-> 0, bIsServer |-> FALSE,
     \* the TLS parameters: one of the strings, one of the flags
     CertChainFilename |-> "", bSslVerifyPeer |-> FALSE,
     \* whether there is an SslBox, and the SslBox_t it points to
     SslBox |-> FALSE, bHandshakeSignaled |-> FALSE, Ssl |-> NoSsl]

ConnectionDescriptor(sd, t) == EventableDescriptor("conn", sd, t)

LoopbreakDescriptor(sd, t) ==
    [EventableDescriptor("loopbreak", sd, t) EXCEPT
        !.bCallbackUnbind = FALSE, !.epollIn = TRUE]

AcceptorDescriptor(sd, t) ==
    [EventableDescriptor("acceptor", sd, t) EXCEPT !.epollIn = TRUE]

DatagramDescriptor(sd, t) ==
    [EventableDescriptor("dgram", sd, t) EXCEPT !.epollIn = TRUE]

\* fd is what inotify_init() returned
InotifyDescriptor(fd, t) ==
    [EventableDescriptor("inotify", 0, t) EXCEPT
        !.bCallbackUnbind = FALSE, !.MySocket = fd, !.epollIn = TRUE]

\* virtual: the queue's byte count for a stream or datagram descriptor, 0 for
\* the other kinds
GetOutboundDataSize(d) ==
    IF d.kind \in {"conn", "dgram"} THEN d.OutboundDataSize ELSE 0

IsCloseScheduled(d) == d.bCloseNow \/ d.bCloseAfterWriting

ShouldDelete(d) ==
    \/ d.MySocket = INVALID_SOCKET
    \/ d.bCloseNow
    \/ (d.bCloseAfterWriting /\ GetOutboundDataSize(d) <= 0)

\* A faulty ScheduleClose, in which a later call replaces the mode an earlier
\* one scheduled.
EDScheduleCloseReplacing(W, id, after_writing) ==
    IF IsCloseScheduled(W.desc[id])
    THEN [W EXCEPT !.desc[id].bCloseNow = ~after_writing,
                   !.desc[id].bCloseAfterWriting = after_writing]
    ELSE LET W1 == [W EXCEPT !.ncs = @ + 1]
         IN  IF after_writing
             THEN SetF(W1, id, "bCloseAfterWriting", TRUE)
             ELSE SetF(W1, id, "bCloseNow", TRUE)

EDScheduleClose(W, id, after_writing) ==
    IF IsCloseScheduled(W.desc[id])
    THEN IF ~after_writing THEN SetF(W, id, "bCloseNow", TRUE) ELSE W
    ELSE LET W1 == [W EXCEPT !.ncs = @ + 1]
         IN  IF after_writing
             THEN SetF(W1, id, "bCloseAfterWriting", TRUE)
             ELSE SetF(W1, id, "bCloseNow", TRUE)

ConnScheduleClose(W, id, after_writing) ==
    IF W.desc[id].bWatchOnly
    THEN Throw(W, "cannot close 'watch only' connections")
    ELSE EDScheduleClose(W, id, after_writing)

\* the virtual call
ScheduleClose(W, id, after_writing) ==
    IF W.desc[id].kind = "conn"
    THEN ConnScheduleClose(W, id, after_writing)
    ELSE EDScheduleClose(W, id, after_writing)

\* A faulty Close, which releases the handle before it deregisters.
CloseReleasingFirst(W, id) ==
    LET d == W.desc[id]
    IN  IF d.MySocket # INVALID_SOCKET
        THEN LET W1 == IF d.MySocket > 2 /\ ~d.bAttached
                       THEN Emit(Emit(W, Ev("shutdown", id, d.MySocket, <<>>)),
                                 Ev("close", id, d.MySocket, <<>>))
                       ELSE W
                 W2 == Emit(W1, Ev("Deregister", id, d.MySocket, <<>>))
             IN  SetF(W2, id, "MySocket", INVALID_SOCKET)
        ELSE W

\* A faulty Close, which spares the handles below 2 only and forgets that
\* an attached handle is the application's.
CloseReleasingReserved(W, id) ==
    LET d == W.desc[id]
    IN  IF d.MySocket # INVALID_SOCKET
        THEN LET W1 == Emit(W, Ev("Deregister", id, d.MySocket, <<>>))
                 W2 == IF d.MySocket >= 2
                       THEN Emit(Emit(W1, Ev("shutdown", id, d.MySocket, <<>>)),
                                 Ev("close", id, d.MySocket, <<>>))
                       ELSE W1
             IN  SetF(W2, id, "MySocket", INVALID_SOCKET)
        ELSE W

Close(W, id) ==
    LET d == W.desc[id]
    IN  IF d.MySocket # INVALID_SOCKET
        THEN LET W1 == Emit(W, Ev("Deregister", id, d.MySocket, <<>>))
                 W2 == IF d.MySocket > 2 /\ ~d.bAttached
                       THEN Emit(Emit(W1, Ev("shutdown", id, d.MySocket, <<>>)),
                                 Ev("close", id, d.MySocket, <<>>))
                       ELSE W1
             IN  SetF(W2, id, "MySocket", INVALID_SOCKET)
        ELSE W

----------------------------------------------------------------------------
(* ConnectionDescriptor: poll interest *)

SelectForRead(d) ==
    IF d.bPaused THEN FALSE
    ELSE IF d.bConnectPending THEN FALSE
    ELSE IF d.bWatchOnly THEN d.bNotifyReadable
    ELSE TRUE

\* A faulty SelectForWrite, which asks for writable wakes with nothing queued.
SelectForWriteWhenIdle(d) ==
    IF d.bPaused THEN FALSE
    ELSE IF d.bConnectPending THEN TRUE
    ELSE IF d.bWatchOnly THEN d.bNotifyWritable
    ELSE TRUE

SelectForWrite(d) ==
    IF d.bPaused THEN FALSE
    ELSE IF d.bConnectPending THEN TRUE
    ELSE IF d.bWatchOnly THEN d.bNotifyWritable
    ELSE GetOutboundDataSize(d) > 0

\* A faulty _UpdateEvents, which recomputes the write interest only.
UpdateEventsWriteOnly(W, id, read, write) ==
    LET d == W.desc[id]
        out2 == IF write THEN SelectForWrite(d) ELSE d.epollOut
    IN  IF d.MySocket = INVALID_SOCKET THEN W
        ELSE IF ~read /\ ~write THEN W
        ELSE IF out2 = d.epollOut THEN W
        ELSE Emit([W EXCEPT !.desc[id].epollOut = out2],
                  Ev("Modify", id, 0, <<>>))

\* _UpdateEvents (bool read, bool write), the epoll branch
UpdateEvents(W, id, read, write) ==
    LET d == W.desc[id]
        in2 == IF read THEN SelectForRead(d) ELSE d.epollIn
        out2 == IF write THEN SelectForWrite(d) ELSE d.epollOut
    IN  IF d.MySocket = INVALID_SOCKET THEN W
        ELSE IF ~read /\ ~write THEN W
        ELSE IF in2 = d.epollIn /\ out2 = d.epollOut THEN W
        ELSE Emit([W EXCEPT !.desc[id].epollIn = in2,
                            !.desc[id].epollOut = out2],
                  Ev("Modify", id, 0, <<>>))

ConnPause(W, id) ==
    IF W.desc[id].bWatchOnly
    THEN Throw(W, "cannot pause/resume 'watch only' connections")
    ELSE Ret(UpdateEvents(SetF(W, id, "bPaused", TRUE), id, TRUE, TRUE),
             IF W.desc[id].bPaused THEN 0 ELSE 1)

ConnResume(W, id) ==
    IF W.desc[id].bWatchOnly
    THEN Throw(W, "cannot pause/resume 'watch only' connections")
    ELSE Ret(UpdateEvents(SetF(W, id, "bPaused", FALSE), id, TRUE, TRUE),
             IF W.desc[id].bPaused THEN 1 ELSE 0)

\* A faulty SetNotifyReadable, which sets the flag before it looks at the
\* mode.
SetNotifyReadableUnchecked(W, id, readable) ==
    IF ~W.desc[id].bWatchOnly
    THEN Throw(SetF(W, id, "bNotifyReadable", readable),
               "notify_readable must be on 'watch only' connections")
    ELSE UpdateEvents(SetF(W, id, "bNotifyReadable", readable), id, TRUE, FALSE)

SetNotifyReadable(W, id, readable) ==
    IF ~W.desc[id].bWatchOnly
    THEN Throw(W, "notify_readable must be on 'watch only' connections")
    ELSE UpdateEvents(SetF(W, id, "bNotifyReadable", readable), id, TRUE, FALSE)

SetNotifyWritable(W, id, writable) ==
    IF ~W.desc[id].bWatchOnly
    THEN Throw(W, "notify_writable must be on 'watch only' connections")
    ELSE UpdateEvents(SetF(W, id, "bNotifyWritable", writable), id, FALSE, TRUE)

\* the virtual calls; the base class only sets the flag
Pause(W, id) ==
    LET W1 == Emit(W, Ev("Pause", id, 0, <<>>))
    IN  IF ~W.desc[id].live THEN Throw(W, "use after free")
        ELSE IF W.desc[id].kind = "conn" THEN ConnPause(W1, id)
        ELSE SetF(W1, id, "bPaused", TRUE)

Resume(W, id) ==
    LET W1 == Emit(W, Ev("Resume", id, 0, <<>>))
    IN  IF ~W.desc[id].live THEN Throw(W, "use after free")
        ELSE IF W.desc[id].kind = "conn" THEN ConnResume(W1, id)
        ELSE SetF(W1, id, "bPaused", FALSE)

----------------------------------------------------------------------------
(* Sending *)

\* A faulty _SendRawOutboundData, which queues the page and leaves the poll
\* interest as it was.
SendRawOutboundDataNotArming(W, id, data) ==
    IF IsCloseScheduled(W.desc[id]) THEN Ret(W, 0)
    ELSE IF Len(data) = 0 THEN Ret(W, 0)
    ELSE Ret([W EXCEPT !.desc[id].OutboundPages =
                           Append(@, OutboundPage(data, 0)),
                       !.desc[id].OutboundDataSize = @ + Len(data)],
             Len(data))

\* ConnectionDescriptor::_SendRawOutboundData
SendRawOutboundData(W, id, data) ==
    IF IsCloseScheduled(W.desc[id]) THEN Ret(W, 0)
    ELSE IF Len(data) = 0 THEN Ret(W, 0)
    ELSE LET W1 == [W EXCEPT
                     !.desc[id].OutboundPages =
                         Append(@, OutboundPage(data, 0)),
                     !.desc[id].OutboundDataSize = @ + Len(data)]
         IN  Ret(UpdateEvents(W1, id, FALSE, TRUE), Len(data))

----------------------------------------------------------------------------
(* TLS: the adaptor's calls, and the drain loop *)

IsHandshakeCompleted(d) == d.Ssl.done

CanGetCiphertext(d) == d.Ssl.ct > 0

\* SslBox_t::GetCiphertext: the next ready chunk, one byte that carries the
\* chunk's number; W.ret is its length
GetCiphertext(W, id) ==
    Ret([W EXCEPT !.desc[id].Ssl.ct = @ - 1, !.desc[id].Ssl.out = @ + 1], 1)

\* SslBox_t::PutPlaintext, of bytes or of nothing (the pump): W.ret is its
\* answer, which the trace keeps
PutPlaintext(W, id) ==
    LET a == W.desc[id].Ssl.put
        w == IF a = <<>> THEN 0 ELSE Head(a)
    IN  Ret(Emit([W EXCEPT
                    !.desc[id].Ssl.put = IF a = <<>> THEN a ELSE Tail(a),
                    !.desc[id].Ssl.ct = IF w > 0 THEN @ + 1 ELSE @],
                 Ev("w = PutPlaintext", id, w, <<>>)),
            w)

\* SslBox_t::GetPlaintext: W.ret is its answer
GetPlaintext(W, id) ==
    LET a == W.desc[id].Ssl.plain
        r == IF a = <<>> THEN <<0, FALSE>> ELSE Head(a)
    IN  Ret(Emit([W EXCEPT
                    !.desc[id].Ssl.plain = IF a = <<>> THEN a ELSE Tail(a),
                    !.desc[id].Ssl.done = @ \/ r[2]],
                 Ev("s = GetPlaintext", id, r[1], <<>>)),
            r[1])

\* _DispatchCiphertext's first loop: while (SslBox->CanGetCiphertext())
RECURSIVE DrainCiphertext(_, _)
DrainCiphertext(W, id) ==
    IF ~CanGetCiphertext(W.desc[id]) THEN W
    ELSE Bind(GetCiphertext(W, id),
              LAMBDA W1 :
                DrainCiphertext(
                    SendRawOutboundData(W1, id, <<W1.desc[id].Ssl.out>>), id))

\* _DispatchCiphertext's second loop: do ... while (pump); did tells whether
\* a pump before this one did work, and W.ret tells it at the end
RECURSIVE PumpPlaintext(_, _, _)
PumpPlaintext(W, id, did) ==
    Bind(PutPlaintext(W, id),
         LAMBDA W1 :
           IF W1.ret > 0 THEN PumpPlaintext(W1, id, TRUE)
           ELSE IF W1.ret < 0
           THEN Then(ScheduleClose(W1, id, FALSE),
                     LAMBDA W2 : Ret(W2, IF did THEN 1 ELSE 0))
           ELSE Ret(W1, IF did THEN 1 ELSE 0))

\* ConnectionDescriptor::_DispatchCiphertext: do ... while (did_work)
RECURSIVE DispatchCiphertext(_, _)
DispatchCiphertext(W, id) ==
    IF ~W.desc[id].SslBox THEN Throw(W, "assert (SslBox)")
    ELSE Then(PumpPlaintext(DrainCiphertext(W, id), id, FALSE),
              LAMBDA W2 :
                IF CanGetCiphertext(W.desc[id]) \/ W2.ret > 0
                THEN DispatchCiphertext(W2, id)
                ELSE W2)

\* SSLBOX_INPUT_CHUNKSIZE (ssl.h)
SSLBOX_INPUT_CHUNKSIZE == 2019

\* SendOutboundData's loop over the plaintext, a chunk at a time
RECURSIVE PutPlaintextChunks(_, _, _)
PutPlaintextChunks(W, id, remaining) ==
    IF remaining <= 0 THEN W
    ELSE Then(Bind(PutPlaintext(
                       Emit(W, Ev("PutPlaintext", id,
                                  Min(remaining, SSLBOX_INPUT_CHUNKSIZE), <<>>)),
                       id),
                   LAMBDA W1 :
                     IF W1.ret < 0 THEN ScheduleClose(W1, id, FALSE)
                     ELSE DispatchCiphertext(W1, id)),
              LAMBDA W2 :
                PutPlaintextChunks(W2, id, remaining - SSLBOX_INPUT_CHUNKSIZE))

\* SendOutboundData once the source is seen to: to the adaptor when TLS
\* runs, to the queue when not
SendPlaintextOrRaw(W, id, data) ==
    IF W.desc[id].SslBox
    THEN Then(PutPlaintextChunks(W, id, Len(data)), LAMBDA W1 : Ret(W1, 1))
    ELSE SendRawOutboundData(W, id, data)

\* ConnectionDescriptor::SetTlsParms, of its parameters a file name (kept
\* when not empty) and a flag (kept always)
SetTlsParms(W, id, certchain_filename, verify_peer) ==
    IF W.desc[id].SslBox
    THEN Throw(W, "call SetTlsParms before calling StartTls")
    ELSE [W EXCEPT !.desc[id].CertChainFilename =
                       IF certchain_filename # "" THEN certchain_filename
                       ELSE @,
                   !.desc[id].bSslVerifyPeer = verify_peer]

\* ConnectionDescriptor::StartTls
StartTls(W, id) ==
    IF W.desc[id].SslBox
    THEN Throw(W, "SSL/TLS already running on connection")
    ELSE DispatchCiphertext(SetF(W, id, "SslBox", TRUE), id)

----------------------------------------------------------------------------
(* Sending, continued *)

\* A faulty SendOutboundData, which pauses the source only when what is queued
\* already exceeds the threshold, whatever the length of what is added.
ConnSendOutboundDataPausingLate(W, id, data) ==
    LET d == W.desc[id]
    IN  IF d.bWatchOnly
        THEN Throw(W, "cannot send data on a 'watch only' connection")
        ELSE Then(IF /\ d.ProxiedFrom # NULL
                     /\ d.MaxOutboundBufSize # 0
                     /\ GetOutboundDataSize(d) > d.MaxOutboundBufSize
                  THEN Pause(W, d.ProxiedFrom)
                  ELSE W,
                  LAMBDA W1 : SendPlaintextOrRaw(W1, id, data))

\* ConnectionDescriptor::SendOutboundData
ConnSendOutboundData(W, id, data) ==
    LET d == W.desc[id]
    IN  IF d.bWatchOnly
        THEN Throw(W, "cannot send data on a 'watch only' connection")
        ELSE Then(IF /\ d.ProxiedFrom # NULL
                     /\ d.MaxOutboundBufSize # 0
                     /\ GetOutboundDataSize(d) + Len(data) > d.MaxOutboundBufSize
                  THEN Pause(W, d.ProxiedFrom)
                  ELSE W,
                  LAMBDA W1 : SendPlaintextOrRaw(W1, id, data))

\* A faulty SendOutboundData, which queues the reply whether or not a close
\* is scheduled.
DgSendOutboundDataWhileClosing(W, id, data) ==
    LET d == W.desc[id]
    IN  Ret(Emit([W EXCEPT
                    !.desc[id].OutboundPages =
                        Append(@, OutboundPage(data, d.ReturnAddress)),
                    !.desc[id].OutboundDataSize = @ + Len(data),
                    !.desc[id].epollIn = TRUE,
                    !.desc[id].epollOut = TRUE],
                 Ev("Modify", id, 0, <<>>)),
            Len(data))

\* DatagramDescriptor::SendOutboundData: the reply to ReturnAddress
DgSendOutboundData(W, id, data) ==
    LET d == W.desc[id]
    IN  IF IsCloseScheduled(d) THEN Ret(W, 0)
        ELSE Ret(Emit([W EXCEPT
                        !.desc[id].OutboundPages =
                            Append(@, OutboundPage(data, d.ReturnAddress)),
                        !.desc[id].OutboundDataSize = @ + Len(data),
                        !.desc[id].epollIn = TRUE,
                        !.desc[id].epollOut = TRUE],
                      Ev("Modify", id, 0, <<>>)),
                 Len(data))

\* DatagramDescriptor::SendOutboundDatagram to a resolved address (0 stands
\* for an empty address or port, -1 for one name2address rejects)
SendOutboundDatagram(W, id, data, addr) ==
    LET d == W.desc[id]
    IN  IF IsCloseScheduled(d) THEN Ret(W, 0)
        ELSE IF addr = 0 THEN Ret(W, 0)
        ELSE IF addr < 0 THEN Ret(W, -1)
        ELSE Ret(Emit([W EXCEPT
                        !.desc[id].OutboundPages =
                            Append(@, OutboundPage(data, addr)),
                        !.desc[id].OutboundDataSize = @ + Len(data),
                        !.desc[id].epollIn = TRUE,
                        !.desc[id].epollOut = TRUE],
                      Ev("Modify", id, 0, <<>>)),
                 Len(data))

\* the virtual call; the base class sends nothing and answers -1
SendOutboundData(W, id, data) ==
    IF ~W.desc[id].live THEN Throw(W, "use after free")
    ELSE IF W.desc[id].kind = "conn" THEN ConnSendOutboundData(W, id, data)
    ELSE IF W.desc[id].kind = "dgram" THEN DgSendOutboundData(W, id, data)
    ELSE Ret(W, -1)

----------------------------------------------------------------------------
(* Proxying *)

SetProxiedFrom(W, id, from, bufsize) ==
    LET W1 == Emit(W, EvA("SetProxiedFrom", id, bufsize, <<>>, from))
    IN  IF ~W.desc[id].live THEN Throw(W, "use after free")
        ELSE IF from # NULL /\ W.desc[id].ProxiedFrom # NULL
        THEN Throw(W1, "Tried to proxy to a busy target")
        ELSE [W1 EXCEPT !.desc[id].ProxiedFrom = from,
                        !.desc[id].MaxOutboundBufSize = bufsize]

\* A faulty StopProxy, which forgets the target's side of the link.
StopProxyOneSided(W, id) ==
    IF ~W.desc[id].live THEN Throw(W, "use after free")
    ELSE IF W.desc[id].ProxyTarget # NULL
    THEN SetF(W, id, "ProxyTarget", NULL)
    ELSE W

StopProxy(W, id) ==
    IF ~W.desc[id].live THEN Throw(W, "use after free")
    ELSE IF W.desc[id].ProxyTarget # NULL
    THEN Then(SetProxiedFrom(W, W.desc[id].ProxyTarget, NULL, 0),
              LAMBDA W1 : SetF(W1, id, "ProxyTarget", NULL))
    ELSE W

\* to is NULL when the binding names no descriptor
StartProxy(W, id, to, bufsize, length) ==
    IF to # NULL
    THEN Then(StopProxy(W, id),
              LAMBDA W1 : SetProxiedFrom(
                              [W1 EXCEPT !.desc[id].ProxyTarget = to,
                                         !.desc[id].BytesToProxy = length,
                                         !.desc[id].ProxiedBytes = 0],
                              to, id, bufsize))
    ELSE Throw(W, "Tried to proxy to an invalid descriptor")

\* A faulty count, which forwards the whole chunk whatever the limit has left.
ProxiedCountWholeChunk(d, size) == size

\* how much of a chunk of size bytes a proxy with a byte limit forwards
ProxiedCount(d, size) == Min(d.BytesToProxy, size)

\* _GenericInboundDispatch once the limit is reached and the proxy stopped:
\* the proxy-completed event, then what the chunk holds beyond the limit
ProxyCompleted(W, id, buf, proxied) ==
    Bind(Emit(W, Ev("EM_PROXY_COMPLETED", id, 0, <<>>)),
         LAMBDA W4 :
           IF proxied < Len(buf)
           THEN Emit(W4, EvA("EM_CONNECTION_READ", id, Len(buf) - proxied,
                             SubSeq(buf, proxied + 1, Len(buf)),
                             W4.desc[id].ReturnAddress))
           ELSE W4)

\* EventableDescriptor::_GenericInboundDispatch; an inbound event is noted
\* with the reply address a send from within the callback would use
GenericInboundDispatch(W, id, buf) ==
    LET d == W.desc[id]
        size == Len(buf)
        proxied == ProxiedCount(d, size)
    IN  IF d.ProxyTarget # NULL
        THEN IF d.BytesToProxy > 0
             THEN Then(SendOutboundData(
                           Emit(W, EvA("Forward", id, proxied,
                                       SubSeq(buf, 1, proxied), d.ProxyTarget)),
                           d.ProxyTarget, SubSeq(buf, 1, proxied)),
                       LAMBDA W1 :
                         Bind([W1 EXCEPT !.desc[id].ProxiedBytes = @ + proxied,
                                         !.desc[id].BytesToProxy = @ - proxied],
                              LAMBDA W2 :
                                IF W2.desc[id].BytesToProxy # 0 THEN W2
                                ELSE Then(StopProxy(W2, id),
                                          LAMBDA W3 : ProxyCompleted(W3, id, buf,
                                                                     proxied))))
             ELSE Then(SendOutboundData(
                           Emit(W, EvA("Forward", id, size, buf, d.ProxyTarget)),
                           d.ProxyTarget, buf),
                       LAMBDA W1 : [W1 EXCEPT !.desc[id].ProxiedBytes = @ + size])
        ELSE Emit(W, EvA("EM_CONNECTION_READ", id, size, buf, d.ReturnAddress))

\* A faulty _CheckHandshakeStatus, which does not record that it signaled.
CheckHandshakeStatusNotRecording(W, id) ==
    LET d == W.desc[id]
    IN  IF d.SslBox /\ ~d.bHandshakeSignaled /\ IsHandshakeCompleted(d)
        THEN Emit(W, Ev("EM_SSL_HANDSHAKE_COMPLETED", id, 0, <<>>))
        ELSE W

\* ConnectionDescriptor::_CheckHandshakeStatus
CheckHandshakeStatus(W, id) ==
    LET d == W.desc[id]
    IN  IF d.SslBox /\ ~d.bHandshakeSignaled /\ IsHandshakeCompleted(d)
        THEN Emit(SetF(W, id, "bHandshakeSignaled", TRUE),
                  Ev("EM_SSL_HANDSHAKE_COMPLETED", id, 0, <<>>))
        ELSE W

\* _DispatchInboundData's loop: while ((s = SslBox->GetPlaintext (...)) > 0);
\* W.ret is the s that ended it
RECURSIVE DrainPlaintext(_, _)
DrainPlaintext(W, id) ==
    Bind(GetPlaintext(W, id),
         LAMBDA W1 :
           IF W1.ret <= 0 THEN W1
           ELSE Then(GenericInboundDispatch(CheckHandshakeStatus(W1, id), id,
                                            Bytes(0, W1.ret)),
                     LAMBDA W2 : DrainPlaintext(W2, id)))

\* ConnectionDescriptor::_DispatchInboundData
DispatchInboundData(W, id, buf) ==
    IF W.desc[id].SslBox
    THEN Then(DrainPlaintext(Emit(W, Ev("PutCiphertext", id, Len(buf), buf)),
                             id),
              LAMBDA W1 :
                IF W1.ret = -2
                THEN ScheduleClose(SetF(W1, id, "UnbindReasonCode", EPROTO),
                                   id, FALSE)
                ELSE DispatchCiphertext(CheckHandshakeStatus(W1, id), id))
    ELSE GenericInboundDispatch(W, id, buf)

----------------------------------------------------------------------------
(* ConnectionDescriptor::Read *)

\* A faulty test, to which an interrupted call is an error like any other.
IsTransientNotInterrupted(e) == e \in {EINPROGRESS, EAGAIN}

IsTransient(e) == e \in {EINPROGRESS, EAGAIN, EINTR}

\* A faulty read loop, which goes on reading a connection that a dispatch
\* left paused.
RECURSIVE ReadLoopIgnoringPause(_, _, _, _, _)
ReadLoopIgnoringPause(W, id, rs, i, k) ==
    LET r == IF i <= Len(rs) THEN rs[i] ELSE 0 - EAGAIN
        buf == IF r > 0 THEN Bytes(k + W.ret, r) ELSE <<>>
    IN  IF i > MaxBurst THEN W
        ELSE Bind(Emit(W, Ev("read", id, r, buf)),
                  LAMBDA Wr :
                    IF r > 0
                    THEN Then(DispatchInboundData(Wr, id, buf),
                              LAMBDA W1 :
                                ReadLoopIgnoringPause(Ret(W1, W.ret + r), id,
                                                      rs, i + 1, k))
                    ELSE IF r = 0 THEN Wr
                    ELSE IF ~IsTransient(0 - r)
                    THEN Close(SetF(Wr, id, "UnbindReasonCode", 0 - r), id)
                    ELSE Wr)

\* The read loop: rs[i] is what the i-th read() answers: n > 0 bytes, 0, or
\* -errno; a socket with nothing more to say answers -EAGAIN.  k bytes came in
\* before this wake.  W.ret carries total_bytes_read.
RECURSIVE ReadLoop(_, _, _, _, _)
ReadLoop(W, id, rs, i, k) ==
    LET r == IF i <= Len(rs) THEN rs[i] ELSE 0 - EAGAIN
        buf == IF r > 0 THEN Bytes(k + W.ret, r) ELSE <<>>
    IN  IF i > MaxBurst THEN W
        ELSE Bind(Emit(W, Ev("read", id, r, buf)),
                  LAMBDA Wr :
                    IF r > 0
                    THEN Then(DispatchInboundData(Wr, id, buf),
                              LAMBDA W1 :
                                IF W1.desc[id].bPaused THEN Ret(W1, W.ret + r)
                                ELSE ReadLoop(Ret(W1, W.ret + r), id, rs,
                                              i + 1, k))
                    ELSE IF r = 0 THEN Wr
                    ELSE IF ~IsTransient(0 - r)
                    THEN Close(SetF(Wr, id, "UnbindReasonCode", 0 - r), id)
                    ELSE Wr)

\* A faulty Read, which lets what is queued go out before it closes a
\* connection that had nothing to read.
ConnReadClosingAfterWriting(W, id, rs, k, t) ==
    LET d == W.desc[id]
    IN  IF d.MySocket = INVALID_SOCKET
        THEN IF d.bReadAttemptedAfterClose
             THEN Throw(W, "assert (!bReadAttemptedAfterClose)")
             ELSE SetF(W, id, "bReadAttemptedAfterClose", TRUE)
        ELSE IF d.bWatchOnly
        THEN IF d.bNotifyReadable
             THEN Emit(W, Ev("EM_CONNECTION_NOTIFY_READABLE", id, 0, <<>>))
             ELSE W
        ELSE Then(ReadLoop(Ret(SetF(W, id, "LastActivity", t), 0), id, rs, 1, k),
                  LAMBDA W1 :
                    IF W1.ret = 0 THEN ConnScheduleClose(W1, id, TRUE)
                    ELSE W1)

ConnRead(W, id, rs, k, t) ==
    LET d == W.desc[id]
    IN  IF d.MySocket = INVALID_SOCKET
        THEN IF d.bReadAttemptedAfterClose
             THEN Throw(W, "assert (!bReadAttemptedAfterClose)")
             ELSE SetF(W, id, "bReadAttemptedAfterClose", TRUE)
        ELSE IF d.bWatchOnly
        THEN IF d.bNotifyReadable
             THEN Emit(W, Ev("EM_CONNECTION_NOTIFY_READABLE", id, 0, <<>>))
             ELSE W
        ELSE Then(ReadLoop(Ret(SetF(W, id, "LastActivity", t), 0), id, rs, 1, k),
                  LAMBDA W1 :
                    IF W1.ret = 0 THEN ConnScheduleClose(W1, id, FALSE)
                    ELSE W1)

----------------------------------------------------------------------------
(* ConnectionDescriptor::Write *)

\* A faulty iovec, which takes every page from its start.
IovIgnoringOffset(pages, iovcnt) == [i \in 1..iovcnt |-> pages[i].Buffer]

\* the iovec of the first iovcnt pages: what is left of each
Iov(pages, iovcnt) ==
    [i \in 1..iovcnt |->
        SubSeq(pages[i].Buffer, pages[i].Offset + 1, Len(pages[i].Buffer))]

\* A faulty loop after writev, which pops the page sent in part as well.
RECURSIVE AdvancePagesDroppingPartial(_, _, _, _)
AdvancePagesDroppingPartial(pages, iov, i, sent) ==
    IF i > Len(iov) THEN pages
    ELSE IF Len(iov[i]) <= sent
    THEN AdvancePagesDroppingPartial(Tail(pages), iov, i + 1,
                                     sent - Len(iov[i]))
    ELSE IF sent > 0 THEN Tail(pages)
    ELSE pages

\* the loop after writev: pages sent in full are popped, the first one sent
\* in part has its offset advanced.  (The loop steps its iterator past the
\* page pop_front() has just erased; with the deques of libstdc++ and of
\* libc++ that step lands on the new front page, which is what is modelled.)
RECURSIVE AdvancePages(_, _, _, _)
AdvancePages(pages, iov, i, sent) ==
    IF i > Len(iov) THEN pages
    ELSE IF Len(iov[i]) <= sent
    THEN AdvancePages(Tail(pages), iov, i + 1, sent - Len(iov[i]))
    ELSE [pages EXCEPT ![1].Offset = @ + sent]

\* A faulty resume, which does not ask whether the source is paused.
ResumeProxiedFromUnguarded(W, id) ==
    LET d == W.desc[id]
    IN  IF /\ d.ProxiedFrom # NULL
           /\ d.MaxOutboundBufSize # 0
           /\ GetOutboundDataSize(d) < d.MaxOutboundBufSize
        THEN Resume(W, d.ProxiedFrom)
        ELSE W

\* _WriteOutboundData, after the byte count is brought down: the proxy source
\* this descriptor paused is resumed
ResumeProxiedFrom(W, id) ==
    LET d == W.desc[id]
    IN  IF /\ d.ProxiedFrom # NULL
           /\ d.MaxOutboundBufSize # 0
           /\ GetOutboundDataSize(d) < d.MaxOutboundBufSize
           /\ W.desc[d.ProxiedFrom].bPaused
        THEN Resume(W, d.ProxiedFrom)
        ELSE W

\* A faulty _WriteOutboundData, to which every error of writev is the end of
\* the connection.
WriteOutboundDataClosingOnAnyError(W, id, res, t) ==
    LET d == W.desc[id]
        iovcnt == Min(Len(d.OutboundPages), MaxIov)
        iov == Iov(d.OutboundPages, iovcnt)
        nbytes == SumLens(iov)
        err == res < 0
        bytes_written == IF err THEN 0 ELSE Min(res, nbytes)
    IN  IF d.MySocket = INVALID_SOCKET
        THEN IF d.bWriteAttemptedAfterClose
             THEN Throw(W, "assert (!bWriteAttemptedAfterClose)")
             ELSE SetF(W, id, "bWriteAttemptedAfterClose", TRUE)
        ELSE IF nbytes <= 0 THEN Throw(SetF(W, id, "LastActivity", t),
                                       "assert (nbytes > 0)")
        ELSE Then(ResumeProxiedFrom(
                      [Emit(SetF(W, id, "LastActivity", t),
                            EvA("writev", id, IF err THEN res ELSE bytes_written,
                                SubSeq(Flatten(iov), 1, bytes_written), iovcnt))
                       EXCEPT !.desc[id].OutboundDataSize = @ - bytes_written],
                      id),
                  LAMBDA W3 :
                    Bind(UpdateEvents(
                             IF ~err
                             THEN SetF(W3, id, "OutboundPages",
                                       AdvancePages(d.OutboundPages, iov, 1,
                                                    bytes_written))
                             ELSE W3,
                             id, FALSE, TRUE),
                         LAMBDA W5 :
                           IF err
                           THEN Close(SetF(W5, id, "UnbindReasonCode", 0 - res),
                                      id)
                           ELSE W5))

\* res is what writev answers: the room the socket has (it accepts that many
\* bytes, or all that is offered when that is less), or -errno
WriteOutboundData(W, id, res, t) ==
    LET d == W.desc[id]
        iovcnt == Min(Len(d.OutboundPages), MaxIov)
        iov == Iov(d.OutboundPages, iovcnt)
        nbytes == SumLens(iov)
        err == res < 0
        bytes_written == IF err THEN 0 ELSE Min(res, nbytes)
    IN  IF d.MySocket = INVALID_SOCKET
        THEN IF d.bWriteAttemptedAfterClose
             THEN Throw(W, "assert (!bWriteAttemptedAfterClose)")
             ELSE SetF(W, id, "bWriteAttemptedAfterClose", TRUE)
        ELSE IF nbytes <= 0 THEN Throw(SetF(W, id, "LastActivity", t),
                                       "assert (nbytes > 0)")
        ELSE Then(ResumeProxiedFrom(
                      [Emit(SetF(W, id, "LastActivity", t),
                            EvA("writev", id, IF err THEN res ELSE bytes_written,
                                SubSeq(Flatten(iov), 1, bytes_written), iovcnt))
                       EXCEPT !.desc[id].OutboundDataSize = @ - bytes_written],
                      id),
                  LAMBDA W3 :
                    Bind(UpdateEvents(
                             IF ~err
                             THEN SetF(W3, id, "OutboundPages",
                                       AdvancePages(d.OutboundPages, iov, 1,
                                                    bytes_written))
                             ELSE W3,
                             id, FALSE, TRUE),
                         LAMBDA W5 :
                           IF err /\ ~IsTransient(0 - res)
                           THEN Close(SetF(W5, id, "UnbindReasonCode", 0 - res),
                                      id)
                           ELSE W5))

\* ConnectionDescriptor::SetConnectPending
\* A faulty SetConnectPending, which leaves the poll interest as it was.
SetConnectPendingNotArming(W, id, f) ==
    Emit(SetF(W, id, "bConnectPending", f), Ev("QueueHeartbeat", id, 0, <<>>))

SetConnectPending(W, id, f) ==
    UpdateEvents(Emit(SetF(W, id, "bConnectPending", f),
                      Ev("QueueHeartbeat", id, 0, <<>>)),
                 id, TRUE, TRUE)

\* so is what getsockopt(SO_ERROR) answers for a pending connect: 0, the
\* socket's error, or -1 when the call itself fails
ConnWrite(W, id, so, res, t) ==
    LET d == W.desc[id]
    IN  IF d.bConnectPending
        THEN IF so = 0
             THEN SetConnectPending(
                      Emit(Emit(W, Ev("getsockopt", id, so, <<>>)),
                           Ev("EM_CONNECTION_COMPLETED", id, 0, <<>>)),
                      id, FALSE)
             ELSE ConnScheduleClose(
                      IF so > 0
                      THEN SetF(Emit(W, Ev("getsockopt", id, so, <<>>)),
                                id, "UnbindReasonCode", so)
                      ELSE Emit(W, Ev("getsockopt", id, so, <<>>)),
                      id, FALSE)
        ELSE IF d.bNotifyWritable
        THEN UpdateEvents(
                 Emit(W, Ev("EM_CONNECTION_NOTIFY_WRITABLE", id, 0, <<>>)),
                 id, FALSE, TRUE)
        ELSE IF d.bWatchOnly THEN Throw(W, "assert (!bWatchOnly)")
        ELSE WriteOutboundData(W, id, res, t)

\* A faulty HandleError, which closes a watch-only connection like any other.
ConnHandleErrorClosing(W, id, rs, k, so, res, t) ==
    ConnScheduleClose(W, id, FALSE)

ConnHandleError(W, id, rs, k, so, res, t) ==
    LET d == W.desc[id]
    IN  IF d.bWatchOnly
        THEN IF d.MySocket = INVALID_SOCKET THEN W
             ELSE Then(IF d.bNotifyReadable THEN ConnRead(W, id, rs, k, t)
                       ELSE W,
                       LAMBDA W1 :
                         IF d.bNotifyWritable THEN ConnWrite(W1, id, so, res, t)
                         ELSE W1)
        ELSE ConnScheduleClose(W, id, FALSE)

\* A faulty Heartbeat, which lets what is queued go out before a timed-out
\* connection is closed.
ConnHeartbeatClosingAfterWriting(W, id, t, skew) ==
    LET d == W.desc[id]
    IN  IF d.bConnectPending
        THEN IF t - d.CreatedAt >= d.PendingConnectTimeout
             THEN ConnScheduleClose(SetF(W, id, "UnbindReasonCode", ETIMEDOUT),
                                    id, TRUE)
             ELSE W
        ELSE IF /\ d.InactivityTimeout # 0
                /\ skew + t - d.LastActivity >= d.InactivityTimeout
             THEN ConnScheduleClose(SetF(W, id, "UnbindReasonCode", ETIMEDOUT),
                                    id, TRUE)
             ELSE W

\* skew is the Reactor's timer quantum
ConnHeartbeat(W, id, t, skew) ==
    LET d == W.desc[id]
    IN  IF d.bConnectPending
        THEN IF t - d.CreatedAt >= d.PendingConnectTimeout
             THEN ConnScheduleClose(SetF(W, id, "UnbindReasonCode", ETIMEDOUT),
                                    id, FALSE)
             ELSE W
        ELSE IF /\ d.InactivityTimeout # 0
                /\ skew + t - d.LastActivity >= d.InactivityTimeout
             THEN ConnScheduleClose(SetF(W, id, "UnbindReasonCode", ETIMEDOUT),
                                    id, FALSE)
             ELSE W

\* Connection- and DatagramDescriptor::GetCommInactivityTimeout, milliseconds
GetCommInactivityTimeout(d) == d.InactivityTimeout \div 1000

\* Connection- and DatagramDescriptor::SetCommInactivityTimeout, milliseconds
SetCommInactivityTimeout(W, id, value) ==
    IF W.desc[id].kind = "dgram" /\ value <= 0 THEN Ret(W, 0)
    ELSE Ret(Emit(SetF(W, id, "InactivityTimeout", value * 1000),
                  Ev("QueueHeartbeat", id, 0, <<>>)), 1)

\* EventableDescriptor::SetPendingConnectTimeout, milliseconds
SetPendingConnectTimeout(W, id, value) ==
    IF value > 0
    THEN Ret(Emit(SetF(W, id, "PendingConnectTimeout", value * 1000),
                  Ev("QueueHeartbeat", id, 0, <<>>)), 1)
    ELSE Ret(W, 0)

\* EventableDescriptor::GetNextHeartbeat; realtime is what GetRealTime()
\* answers, microseconds
GetNextHeartbeat(W, id, realtime) ==
    LET d == W.desc[id]
        W0 == SetF(IF d.NextHeartbeat # 0
                   THEN Emit(W, Ev("ClearHeartbeat", id, d.NextHeartbeat, <<>>))
                   ELSE W,
                   id, "NextHeartbeat", 0)
        time_til_next ==
            IF /\ d.bConnectPending
               /\ \/ d.InactivityTimeout = 0
                  \/ d.PendingConnectTimeout < d.InactivityTimeout
            THEN d.PendingConnectTimeout
            ELSE d.InactivityTimeout
    IN  IF ShouldDelete(d) THEN Ret(W0, 0)
        ELSE IF time_til_next = 0 THEN Ret(W0, 0)
        ELSE Ret(SetF(W0, id, "NextHeartbeat", time_til_next + realtime),
                 time_til_next + realtime)

----------------------------------------------------------------------------
(* DatagramDescriptor *)

DgSelectForWrite(d) == Len(d.OutboundPages) > 0

\* A faulty receive loop, to which a datagram of no bytes is the end of the
\* burst.
RECURSIVE DgReadLoopSkippingEmpty(_, _, _, _)
DgReadLoopSkippingEmpty(W, id, ds, i) ==
    LET r == IF i <= Len(ds) THEN ds[i] ELSE <<0 - EAGAIN, 0>>
    IN  IF i > MaxBurst THEN W
        ELSE Bind(Emit(W, EvA("recvfrom", id, r[1], <<>>, r[2])),
                  LAMBDA Wr :
                    IF r[1] > 0
                    THEN Then(GenericInboundDispatch(
                                  SetF(Wr, id, "ReturnAddress", r[2]),
                                  id, Bytes(0, r[1])),
                              LAMBDA W1 : DgReadLoopSkippingEmpty(W1, id, ds,
                                                                  i + 1))
                    ELSE Wr)

\* ds[i] is what the i-th recvfrom() answers: <<length, sender>>, or
\* <<-errno, 0>>; a socket with no datagram left answers -EAGAIN
RECURSIVE DgReadLoop(_, _, _, _)
DgReadLoop(W, id, ds, i) ==
    LET r == IF i <= Len(ds) THEN ds[i] ELSE <<0 - EAGAIN, 0>>
    IN  IF i > MaxBurst THEN W
        ELSE Bind(Emit(W, EvA("recvfrom", id, r[1], <<>>, r[2])),
                  LAMBDA Wr :
                    IF r[1] >= 0
                    THEN Then(GenericInboundDispatch(
                                  SetF(Wr, id, "ReturnAddress", r[2]),
                                  id, Bytes(0, r[1])),
                              LAMBDA W1 : DgReadLoop(W1, id, ds, i + 1))
                    ELSE Wr)

DgRead(W, id, ds, t) ==
    IF W.desc[id].MySocket = INVALID_SOCKET
    THEN Throw(W, "assert (sd != INVALID_SOCKET)")
    ELSE DgReadLoop(SetF(W, id, "LastActivity", t), id, ds, 1)

\* A faulty send loop, which closes on a fatal error and keeps no reason.
RECURSIVE DgWriteLoopWithoutReason(_, _, _, _)
DgWriteLoopWithoutReason(W, id, outs, i) ==
    LET d == W.desc[id]
        op == d.OutboundPages[1]
        s == IF i <= Len(outs) THEN outs[i] ELSE 0
        W1 == Emit(W, EvA("sendto", id, s, op.Buffer, op.From))
        W2 == [W1 EXCEPT !.desc[id].OutboundDataSize = @ - Len(op.Buffer),
                         !.desc[id].OutboundPages = Tail(@)]
    IN  IF i > MaxBurst THEN W
        ELSE IF Len(d.OutboundPages) <= 0 THEN W
        ELSE IF s < 0 /\ ~IsTransient(0 - s)
        THEN Close(W2, id)
        ELSE DgWriteLoopWithoutReason(W2, id, outs, i + 1)

\* A faulty send loop, which keeps a message the socket would not take yet
\* at the head of the queue and tries again.
RECURSIVE DgWriteLoopKeepingUnsent(_, _, _, _)
DgWriteLoopKeepingUnsent(W, id, outs, i) ==
    LET d == W.desc[id]
        op == d.OutboundPages[1]
        s == IF i <= Len(outs) THEN outs[i] ELSE 0
        W1 == Emit(W, EvA("sendto", id, s, op.Buffer, op.From))
        W2 == [W1 EXCEPT !.desc[id].OutboundDataSize = @ - Len(op.Buffer),
                         !.desc[id].OutboundPages = Tail(@)]
    IN  IF i > MaxBurst THEN W
        ELSE IF Len(d.OutboundPages) <= 0 THEN W
        ELSE IF s < 0 /\ ~IsTransient(0 - s)
        THEN Close(SetF(W2, id, "UnbindReasonCode", 0 - s), id)
        ELSE IF s < 0 THEN DgWriteLoopKeepingUnsent(W1, id, outs, i + 1)
        ELSE DgWriteLoopKeepingUnsent(W2, id, outs, i + 1)

\* outs[i] is what the i-th sendto() answers: 0 for sent, or -errno
RECURSIVE DgWriteLoop(_, _, _, _)
DgWriteLoop(W, id, outs, i) ==
    LET d == W.desc[id]
        op == d.OutboundPages[1]
        s == IF i <= Len(outs) THEN outs[i] ELSE 0
        W1 == Emit(W, EvA("sendto", id, s, op.Buffer, op.From))
        W2 == [W1 EXCEPT !.desc[id].OutboundDataSize = @ - Len(op.Buffer),
                         !.desc[id].OutboundPages = Tail(@)]
    IN  IF i > MaxBurst THEN W
        ELSE IF Len(d.OutboundPages) <= 0 THEN W
        ELSE IF s < 0 /\ ~IsTransient(0 - s)
        THEN Close(SetF(W2, id, "UnbindReasonCode", 0 - s), id)
        ELSE DgWriteLoop(W2, id, outs, i + 1)

DgWrite(W, id, outs, t) ==
    LET d == W.desc[id]
    IN  IF d.MySocket = INVALID_SOCKET
        THEN Throw(W, "assert (sd != INVALID_SOCKET)")
        ELSE IF Len(d.OutboundPages) <= 0
        THEN Throw(SetF(W, id, "LastActivity", t),
                   "assert (OutboundPages.size() > 0)")
        ELSE Bind(DgWriteLoop(SetF(W, id, "LastActivity", t), id, outs, 1),
                  LAMBDA W1 :
                    Emit([W1 EXCEPT !.desc[id].epollIn = TRUE,
                                    !.desc[id].epollOut =
                                        DgSelectForWrite(W1.desc[id])],
                         Ev("Modify", id, 0, <<>>)))

DgHeartbeat(W, id, t) ==
    LET d == W.desc[id]
    IN  IF d.InactivityTimeout # 0 /\ t - d.LastActivity >= d.InactivityTimeout
        THEN EDScheduleClose(W, id, FALSE)
        ELSE W

----------------------------------------------------------------------------
(* AcceptorDescriptor *)

\* the new connection of handle sd: constructed at time t, set to server
\* mode, its poll interest set
NewConnection(sd, t) ==
    LET cd == [ConnectionDescriptor(sd, t) EXCEPT !.bIsServer = TRUE]
    IN  [cd EXCEPT !.epollIn = SelectForRead(cd),
                   !.epollOut = SelectForWrite(cd)]

\* the loop's body for a handle sd accept gave: ok tells whether
\* SetFdCloexec and SetSocketNonblocking succeed on it
AcceptOne(W, id, sd, ok, t) ==
    IF ~ok
    THEN Emit(Emit(Emit(W, Ev("SetSocketNonblocking", NULL, sd, <<>>)),
                   Ev("shutdown", NULL, sd, <<>>)),
              Ev("close", NULL, sd, <<>>))
    ELSE Emit(Emit([W EXCEPT !.desc = Append(@, NewConnection(sd, t))],
                   EvA("EM_CONNECTION_ACCEPTED", id, 0, <<>>, Len(W.desc) + 1)),
              Ev("Add", Len(W.desc) + 1, sd, <<>>))

\* A faulty loop, which a handle that cannot be set up ends.
RECURSIVE AcceptLoopEndedBySetup(_, _, _, _, _, _)
AcceptLoopEndedBySetup(W, id, as, i, count, t) ==
    LET a == IF i <= Len(as) THEN as[i] ELSE "none"
        sd == IF a = "none" THEN INVALID_SOCKET ELSE Len(W.desc) + 3
    IN  IF i > count THEN W
        ELSE Bind(IF a \in {"none", "late"}
                  THEN Emit(Emit(W, Ev("accept4", id, INVALID_SOCKET, <<>>)),
                            Ev("accept", id, sd, <<>>))
                  ELSE Emit(W, Ev("accept4", id, sd, <<>>)),
                  LAMBDA Wa :
                    IF sd = INVALID_SOCKET THEN Wa
                    ELSE IF a = "unset" THEN AcceptOne(Wa, id, sd, FALSE, t)
                    ELSE AcceptLoopEndedBySetup(
                             AcceptOne(Wa, id, sd, TRUE, t),
                             id, as, i + 1, count, t))

\* as[i] is how the i-th attempt goes: "conn", accept4() gives a handle;
\* "late", accept4() fails and accept() gives one; "unset", accept4() gives a
\* handle that cannot be set up; "none", both calls fail
RECURSIVE AcceptLoop(_, _, _, _, _, _)
AcceptLoop(W, id, as, i, count, t) ==
    LET a == IF i <= Len(as) THEN as[i] ELSE "none"
        sd == IF a = "none" THEN INVALID_SOCKET ELSE Len(W.desc) + 3
    IN  IF i > count THEN W
        ELSE Bind(IF a \in {"none", "late"}
                  THEN Emit(Emit(W, Ev("accept4", id, INVALID_SOCKET, <<>>)),
                            Ev("accept", id, sd, <<>>))
                  ELSE Emit(W, Ev("accept4", id, sd, <<>>)),
                  LAMBDA Wa :
                    IF sd = INVALID_SOCKET THEN Wa
                    ELSE AcceptLoop(AcceptOne(Wa, id, sd, a # "unset", t),
                                    id, as, i + 1, count, t))

\* AcceptorDescriptor::Read; count is the Reactor's simultaneous accept count
AcceptorRead(W, id, as, count, t) == AcceptLoop(W, id, as, 1, count, t)

----------------------------------------------------------------------------
(* Destruction *)

\* ~InotifyDescriptor, which runs before the base class's destructor
DtorInotify(W, id) ==
    SetF(Emit(W, Ev("close", id, W.desc[id].MySocket, <<>>)),
         id, "MySocket", INVALID_SOCKET)

\* ~EventableDescriptor
DtorBase(W, id) ==
    LET d == W.desc[id]
        W1 == IF d.NextHeartbeat # 0
              THEN Emit(W, Ev("ClearHeartbeat", id, d.NextHeartbeat, <<>>))
              ELSE W
        W2 == IF d.bCallbackUnbind
              THEN Emit(W1, Ev("EM_CONNECTION_UNBOUND", id, d.UnbindReasonCode,
                               <<>>))
              ELSE W1
    IN  Then(IF d.ProxiedFrom # NULL
             THEN StopProxy(Emit(W2, Ev("EM_PROXY_TARGET_UNBOUND",
                                        d.ProxiedFrom, 0, <<>>)),
                            d.ProxiedFrom)
             ELSE W2,
             LAMBDA W3 :
               Then(StopProxy(Emit([W3 EXCEPT !.ncs = @ - 1],
                                   Ev("NumCloseScheduled--", id, 0, <<>>)),
                              id),
                    LAMBDA W5 : Close(W5, id)))

\* delete ed: the subclass's destructor, then the base class's
\* (~ConnectionDescriptor and ~DatagramDescriptor only free the pages)
Destroy(W, id) ==
    LET W1 == IF W.desc[id].kind = "inotify" THEN DtorInotify(W, id) ELSE W
    IN  SetF(DtorBase(W1, id), id, "live", FALSE)

----------------------------------------------------------------------------
(* What an operation leaves behind. *)

\* the bytes the events named t of descriptor i carry, in order
RECURSIVE TraceBytes(_, _, _)
TraceBytes(ev, t, i) ==
    IF ev = <<>> THEN <<>>
    ELSE (IF Head(ev).t = t /\ Head(ev).d = i THEN Head(ev).data ELSE <<>>)
         \o TraceBytes(Tail(ev), t, i)

Count(ev, t, i) == Cardinality({k \in 1..Len(ev) : ev[k].t = t /\ ev[k].d = i})

\* the places of the events named t of descriptor i
Places(ev, t, i) == {k \in 1..Len(ev) : ev[k].t = t /\ ev[k].d = i}

Op(name, id, arg) == [op |-> name, id |-> id, arg |-> arg]

\* a proxy's record: whether one started by StartProxy is being followed, its
\* byte limit, the inbound bytes dispatched since, those forwarded, those
\* delivered to the callback, and the proxy-completed events fired
NoProxy == [on |-> FALSE, limit |-> 0, seen |-> 0, fwd |-> <<>>, rd |-> <<>>,
            done |-> 0]

RECURSIVE SumPos(_)
SumPos(rs) ==
    IF rs = <<>> THEN 0
    ELSE (IF Head(rs) > 0 THEN Head(rs) ELSE 0) + SumPos(Tail(rs))

\* what an operation made of the world W becomes the next state; V is W,
\* worked out once
Commit(W, op) ==
    \E V \in {W} :
        /\ desc' = V.desc
        /\ NumCloseScheduled' = V.ncs
        /\ trace' = V.ev
        /\ fault' = V.fault
        /\ last' = op
        /\ wire' = [i \in Ids |-> wire[i] \o TraceBytes(V.ev, "writev", i)]
        /\ nDeregister' = [i \in Ids |-> nDeregister[i] + Count(V.ev, "Deregister", i)]
        /\ nRelease' = [i \in Ids |-> nRelease[i] + Count(V.ev, "close", i)]
        /\ px' = [i \in Ids |->
                    IF op.op = "StartProxy" /\ op.id = i
                    THEN [NoProxy EXCEPT !.on = Ok(V), !.limit = op.arg[3]]
                    ELSE IF ~px[i].on THEN px[i]
                    ELSE IF op.op \in {"Read", "HandleError"} /\ op.id = i
                    THEN [px[i] EXCEPT
                            !.seen = @ + Len(TraceBytes(V.ev, "read", i)),
                            !.fwd = @ \o TraceBytes(V.ev, "Forward", i),
                            !.rd = @ \o TraceBytes(V.ev, "EM_CONNECTION_READ", i),
                            !.done = @ + Count(V.ev, "EM_PROXY_COMPLETED", i)]
                    ELSE IF V.desc[i].ProxyTarget # desc[i].ProxyTarget
                    THEN NoProxy
                    ELSE px[i]]

\* a send, which also adds what it queued to the descriptor's stream
CommitSend(W, op, data) ==
    /\ Commit(W, op)
    /\ queued' = [queued EXCEPT ![op.id] =
                     IF Ok(W) /\ W.ret > 0 THEN @ \o data ELSE @]

Live(id) == desc[id].live

IsKind(id, kinds) == desc[id].kind \in kinds

----------------------------------------------------------------------------
(* The application's calls. *)

AppScheduleClose(id, after_writing) ==
    /\ Live(id)
    /\ Commit(ScheduleClose(World, id, after_writing),
              Op("ScheduleClose", id, <<after_writing>>))
    /\ UNCHANGED <<now, queued>>

\* send_data: n bytes, the next n of the application's stream; what the call
\* returned is noted with the operation
AppSend(id, n) ==
    /\ Live(id)
    /\ IsKind(id, {"conn", "dgram"})
    /\ Len(queued[id]) + n <= MaxBytes
    /\ Len(desc[id].OutboundPages) < MaxPages
    /\ CommitSend(SendOutboundData(World, id, Bytes(Len(queued[id]), n)),
                  Op("SendOutboundData", id,
                     <<n, SendOutboundData(World, id,
                                           Bytes(Len(queued[id]), n)).ret>>),
                  Bytes(Len(queued[id]), n))
    /\ UNCHANGED now

\* send_datagram to an explicit address; what the call returned is noted
\* with the operation
AppSendDatagram(id, n, addr) ==
    /\ Live(id)
    /\ IsKind(id, {"dgram"})
    /\ Len(queued[id]) + n <= MaxBytes
    /\ Len(desc[id].OutboundPages) < MaxPages
    /\ CommitSend(SendOutboundDatagram(World, id, Bytes(Len(queued[id]), n),
                                       addr),
                  Op("SendOutboundDatagram", id,
                     <<n, addr,
                       SendOutboundDatagram(World, id, Bytes(Len(queued[id]), n),
                                            addr).ret>>),
                  Bytes(Len(queued[id]), n))
    /\ UNCHANGED now

AppPause(id) ==
    /\ Live(id)
    /\ IsKind(id, {"conn"})
    /\ Commit(Pause(World, id), Op("Pause", id, <<>>))
    /\ UNCHANGED <<now, queued>>

AppResume(id) ==
    /\ Live(id)
    /\ IsKind(id, {"conn"})
    /\ Commit(Resume(World, id), Op("Resume", id, <<>>))
    /\ UNCHANGED <<now, queued>>

AppSetCommInactivityTimeout(id, value) ==
    /\ Live(id)
    /\ IsKind(id, {"conn", "dgram"})
    /\ Commit(SetCommInactivityTimeout(World, id, value),
              Op("SetCommInactivityTimeout", id, <<value>>))
    /\ UNCHANGED <<now, queued>>

AppSetPendingConnectTimeout(id, value) ==
    /\ Live(id)
    /\ Commit(SetPendingConnectTimeout(World, id, value),
              Op("SetPendingConnectTimeout", id, <<value>>))
    /\ UNCHANGED <<now, queued>>

AppSetNotifyReadable(id, readable) ==
    /\ Live(id)
    /\ IsKind(id, {"conn"})
    /\ Commit(SetNotifyReadable(World, id, readable),
              Op("SetNotifyReadable", id, <<readable>>))
    /\ UNCHANGED <<now, queued>>

AppSetNotifyWritable(id, writable) ==
    /\ Live(id)
    /\ IsKind(id, {"conn"})
    /\ Commit(SetNotifyWritable(World, id, writable),
              Op("SetNotifyWritable", id, <<writable>>))
    /\ UNCHANGED <<now, queued>>

AppSetTlsParms(id, certchain_filename, verify_peer) ==
    /\ Live(id)
    /\ IsKind(id, {"conn"})
    /\ Commit(SetTlsParms(World, id, certchain_filename, verify_peer),
              Op("SetTlsParms", id, <<certchain_filename, verify_peer>>))
    /\ UNCHANGED <<now, queued>>

\* the descriptor a binding names: NULL once it is destroyed
GetObject(to) == IF Live(to) THEN to ELSE NULL

AppStartProxy(id, to, bufsize, length) ==
    /\ Live(id)
    /\ Commit(StartProxy(World, id, GetObject(to), bufsize, length),
              Op("StartProxy", id, <<to, bufsize, length>>))
    /\ UNCHANGED <<now, queued>>

AppStopProxy(id) ==
    /\ Live(id)
    /\ Commit(StopProxy(World, id), Op("StopProxy", id, <<>>))
    /\ UNCHANGED <<now, queued>>

----------------------------------------------------------------------------
(* The Reactor's calls. *)

ReadOutcomes == (1..MaxSendLen) \cup {0, 0 - EAGAIN, 0 - EINTR, 0 - ECONNRESET}

\* what the read() calls of one wake answer: chunks, then how they end
ReadScripts ==
    {<<>>} \cup {<<o>> : o \in ReadOutcomes}
           \cup {<<c, o>> : c \in 1..MaxSendLen, o \in ReadOutcomes}

WriteOutcomes == (0..MaxBytes) \cup {0 - EAGAIN, 0 - EINTR, 0 - ECONNRESET}

SockOptOutcomes == {0, ECONNRESET, -1}

\* what the recvfrom() calls of one wake answer: <<length, sender>>
DgScripts ==
    {<<>>} \cup {<<<<n, a>>>> : n \in 0..1, a \in {7, 8}}
           \cup {<<<<0, 7>>, <<1, 8>>>>}

\* what the sendto() calls of one wake answer
DgOutScripts ==
    {<<>>} \cup {<<o>> : o \in {0 - EAGAIN, 0 - ECONNRESET}}
           \cup {<<0, 0 - ECONNRESET>>}

\* the poller reports the handle readable
ReadWake(id, rs) ==
    /\ Live(id)
    /\ IsKind(id, {"conn"})
    /\ desc[id].MySocket # INVALID_SOCKET
    /\ desc[id].epollIn
    /\ px[id].on => px[id].seen + SumPos(rs) <= MaxBytes
    /\ desc[id].ProxyTarget # NULL =>
          Len(wire[desc[id].ProxyTarget])
              + desc[desc[id].ProxyTarget].OutboundDataSize + SumPos(rs)
              <= MaxBytes
    /\ Commit(ConnRead(World, id, rs, px[id].seen, now), Op("Read", id, <<>>))
    /\ UNCHANGED <<now, queued>>

\* Read of a watch-only connection on a report the poller made before a
\* callback of the same pass changed the connection's interest
StaleReadWake(id) ==
    /\ Live(id)
    /\ IsKind(id, {"conn"})
    /\ desc[id].bWatchOnly
    /\ desc[id].MySocket # INVALID_SOCKET
    /\ Commit(ConnRead(World, id, <<>>, 0, now), Op("Read", id, <<>>))
    /\ UNCHANGED <<now, queued>>

\* the poller reports the handle writable
WriteWake(id, so, res) ==
    /\ Live(id)
    /\ IsKind(id, {"conn"})
    /\ desc[id].MySocket # INVALID_SOCKET
    /\ desc[id].epollOut
    /\ IF desc[id].bConnectPending THEN res = 0 ELSE so = 0
    /\ Commit(ConnWrite(World, id, so, res, now), Op("Write", id, <<>>))
    /\ UNCHANGED <<now, queued>>

\* the poller reports EPOLLERR or EPOLLHUP
ErrorWake(id) ==
    /\ Live(id)
    /\ IsKind(id, {"conn"})
    /\ desc[id].MySocket # INVALID_SOCKET
    /\ Commit(ConnHandleError(World, id, <<>>, 0, 0, 0, now),
              Op("HandleError", id, <<>>))
    /\ UNCHANGED <<now, queued>>

DgReadWake(id, ds) ==
    /\ Live(id)
    /\ IsKind(id, {"dgram"})
    /\ desc[id].MySocket # INVALID_SOCKET
    /\ desc[id].epollIn
    /\ Commit(DgRead(World, id, ds, now), Op("DgRead", id, <<>>))
    /\ UNCHANGED <<now, queued>>

DgWriteWake(id, outs) ==
    /\ Live(id)
    /\ IsKind(id, {"dgram"})
    /\ desc[id].MySocket # INVALID_SOCKET
    /\ desc[id].epollOut
    /\ Commit(DgWrite(World, id, outs, now), Op("DgWrite", id, <<>>))
    /\ UNCHANGED <<now, queued>>

HeartbeatWake(id) ==
    /\ Live(id)
    /\ IsKind(id, {"conn", "dgram"})
    /\ Commit(IF desc[id].kind = "conn"
              THEN ConnHeartbeat(World, id, now, TimerQuantumMs * 1000)
              ELSE DgHeartbeat(World, id, now),
              Op("Heartbeat", id, <<>>))
    /\ UNCHANGED <<now, queued>>

\* the Reactor asks for the descriptor's next deadline when it queues its
\* heartbeat; the real time is the loop time or later by lag. What the call
\* returned is noted with the operation.
NextHeartbeatWake(id, lag) ==
    /\ Live(id)
    /\ Commit(GetNextHeartbeat(World, id, now + lag),
              Op("GetNextHeartbeat", id,
                 <<now + lag, GetNextHeartbeat(World, id, now + lag).ret>>))
    /\ UNCHANGED <<now, queued>>

\* the Reactor deletes a descriptor it finds ShouldDelete() true of
ReactorDestroy(id) ==
    /\ Live(id)
    /\ ShouldDelete(desc[id])
    /\ Commit(Destroy(World, id), Op("Destroy", id, <<>>))
    /\ UNCHANGED <<now, queued>>

----------------------------------------------------------------------------
(* How descriptors come to be. *)

SetAttached(W, id, state) == SetF(W, id, "bAttached", state)

SetWatchOnly(W, id, watching) ==
    UpdateEvents(SetF(W, id, "bWatchOnly", watching), id, TRUE, TRUE)

\* a world holding the descriptors ds alone
WorldOf(ds) == [desc |-> ds, ncs |-> 0, ev |-> <<>>, fault |-> "", ret |-> 0]

\* AcceptorDescriptor::Read's new connection, as it is added to the Reactor
Accepted(sd) ==
    LET cd == [ConnectionDescriptor(sd, 0) EXCEPT !.bIsServer = TRUE]
    IN  [cd EXCEPT !.epollIn = SelectForRead(cd),
                   !.epollOut = SelectForWrite(cd)]

\* a connection whose connect() is under way
Connecting(sd) ==
    SetConnectPending(WorldOf(<<ConnectionDescriptor(sd, 0)>>), 1, TRUE).desc[1]

\* a connection made of a handle the application attached
Attached(sd, watch_mode) ==
    SetConnectPending(
        SetWatchOnly(
            SetAttached(WorldOf(<<ConnectionDescriptor(sd, 0)>>), 1, TRUE),
            1, watch_mode),
        1, FALSE).desc[1]

\* the handles descriptors are made of: a reserved one and an ordinary one
Handles == {2, 3}

Streams ==
    {Accepted(3), Connecting(3)}
        \cup {Attached(sd, w) : sd \in Handles, w \in BOOLEAN}

Others ==
    {DatagramDescriptor(sd, 0) : sd \in Handles}
        \cup {AcceptorDescriptor(3, 0), LoopbreakDescriptor(3, 0),
              InotifyDescriptor(3, 0)}

InitWith(ds) ==
    /\ desc = ds
    /\ NumCloseScheduled = 0
    /\ now = 0
    /\ trace = <<>>
    /\ fault = ""
    /\ last = Op("", 0, <<>>)
    /\ wire = [i \in DOMAIN ds |-> <<>>]
    /\ queued = [i \in DOMAIN ds |-> <<>>]
    /\ nDeregister = [i \in DOMAIN ds |-> 0]
    /\ nRelease = [i \in DOMAIN ds |-> 0]
    /\ px = [i \in DOMAIN ds |-> NoProxy]

----------------------------------------------------------------------------
(* One descriptor of any kind, from its registration to its destruction. *)

Init == \E d \in Streams \cup Others : InitWith(<<d>>)

Next ==
    \/ \E id \in Ids, aw \in BOOLEAN : AppScheduleClose(id, aw)
    \/ \E id \in Ids, n \in 0..MaxSendLen : AppSend(id, n)
    \/ \E id \in Ids, n \in 0..MaxSendLen, a \in {-1, 0, 7} :
            AppSendDatagram(id, n, a)
    \/ \E id \in Ids : AppPause(id)
    \/ \E id \in Ids : AppResume(id)
    \/ \E id \in Ids, v \in 0..1 : AppSetCommInactivityTimeout(id, v)
    \/ \E id \in Ids, rs \in ReadScripts : ReadWake(id, rs)
    \/ \E id \in Ids, so \in SockOptOutcomes, res \in WriteOutcomes :
            WriteWake(id, so, res)
    \/ \E id \in Ids : ErrorWake(id)
    \/ \E id \in Ids, ds \in DgScripts : DgReadWake(id, ds)
    \/ \E id \in Ids, outs \in DgOutScripts : DgWriteWake(id, outs)
    \/ \E id \in Ids : HeartbeatWake(id)
    \/ \E id \in Ids : ReactorDestroy(id)

Spec == Init /\ [][Next]_vars

----------------------------------------------------------------------------
(* A connection with a long queue: more pages than one writev gathers. *)

\* the one-byte sends made before the first writable wake
FlushQueued == 15
\* the bytes the sends that follow add
FlushMore == 4

\* the world after sends of one byte each, the k-th to the n-th
RECURSIVE SendOnes(_, _, _, _)
SendOnes(W, id, k, n) ==
    IF k > n THEN W
    ELSE SendOnes(SendOutboundData(W, id, Bytes(k - 1, 1)), id, k + 1, n)

InitFlush ==
    /\ desc = SendOnes(WorldOf(<<Accepted(3)>>), 1, 1, FlushQueued).desc
    /\ NumCloseScheduled = 0
    /\ now = 0
    /\ trace = <<>>
    /\ fault = ""
    /\ last = Op("", 0, <<>>)
    /\ wire = <<<<>>>>
    /\ queued = <<Bytes(0, FlushQueued)>>
    /\ nDeregister = <<0>>
    /\ nRelease = <<0>>
    /\ px = <<NoProxy>>

\* send_data, while the application's stream is shorter than cap bytes
BoundedSend(id, n, cap) ==
    /\ Live(id)
    /\ Len(queued[id]) + n <= cap
    /\ CommitSend(SendOutboundData(World, id, Bytes(Len(queued[id]), n)),
                  Op("SendOutboundData", id, <<n>>), Bytes(Len(queued[id]), n))
    /\ UNCHANGED now

\* the room the socket has, up to all that is queued, or writev's failure
FlushOutcomes ==
    (0..(FlushQueued + FlushMore))
        \cup {0 - EAGAIN, 0 - EINTR, 0 - ECONNRESET}

NextFlush ==
    \/ \E id \in Ids, n \in 1..MaxSendLen :
            BoundedSend(id, n, FlushQueued + FlushMore)
    \/ \E id \in Ids, res \in FlushOutcomes : WriteWake(id, 0, res)

SpecFlush == InitFlush /\ [][NextFlush]_vars

----------------------------------------------------------------------------
(* A connected stream whose socket takes a byte or more at every writable   *)
(* wake, and which the Reactor wakes whenever its write interest is armed. *)

\* the most bytes the application sends
LiveBytes == 4

InitLive == InitWith(<<Accepted(3)>>)

\* a writable wake of a socket that has room
RoomyWriteWake == \E id \in Ids, res \in 1..LiveBytes : WriteWake(id, 0, res)

NextLive ==
    \/ \E id \in Ids, n \in 1..MaxSendLen : BoundedSend(id, n, LiveBytes)
    \/ \E id \in Ids : AppPause(id)
    \/ \E id \in Ids : AppResume(id)
    \/ RoomyWriteWake

SpecLive == InitLive /\ [][NextLive]_vars /\ WF_vars(RoomyWriteWake)

----------------------------------------------------------------------------
(* Two connections: the first proxies its inbound data to the second, which *)
(* sends it on.                                                             *)

InitProxy == InitWith(<<Accepted(3), Accepted(4)>>)

\* the thresholds a proxy is started with: none, and one byte
BufSizes == {0, 1}

Sources == {1}
Targets == {2}

NextProxy ==
    \/ \E id \in Sources, to \in Targets, b \in BufSizes, n \in 0..MaxBytes :
            AppStartProxy(id, to, b, n)
    \/ \E id \in Sources : AppStopProxy(id)
    \/ \E id \in Sources, rs \in ReadScripts : ReadWake(id, rs)
    \/ \E id \in Targets, res \in WriteOutcomes : WriteWake(id, 0, res)
    \/ \E id \in Ids : ReactorDestroy(id)

SpecProxy == InitProxy /\ [][NextProxy]_vars

----------------------------------------------------------------------------
(* Properties of one descriptor (Spec). *)

\* what is left to send of the pages of a queue
RECURSIVE SumLeft(_)
SumLeft(pages) ==
    IF pages = <<>> THEN 0 ELSE PageLeft(Head(pages)) + SumLeft(Tail(pages))

Streaming(id) == Live(id) /\ IsKind(id, {"conn", "dgram"})

\* the places of the trace
Place == 1..Len(trace)

\* C1, as the specification states it: a stream or datagram descriptor is to
\* be deleted exactly when its handle is invalid, or an immediate close is
\* scheduled, or a close after writing is scheduled and its outbound queue
\* holds no pages -- zero-length datagrams that are queued count as pages.
C1_ShouldDeleteIffNoPagesQueued ==
    \A id \in Ids :
        Streaming(id) =>
            (ShouldDelete(desc[id]) <=>
                \/ desc[id].MySocket = INVALID_SOCKET
                \/ desc[id].bCloseNow
                \/ /\ desc[id].bCloseAfterWriting
                   /\ Len(desc[id].OutboundPages) = 0)

\* C2: the close state only moves forward.  No operation clears a scheduled
\* close after writing, none clears a scheduled immediate close; a
\* ScheduleClose(after_writing = true) that follows an immediate close leaves
\* the immediate close in force.
C2_CloseStateOnlyMovesForward ==
    [][\A id \in Ids :
          /\ desc[id].bCloseNow => desc'[id].bCloseNow
          /\ desc[id].bCloseAfterWriting => desc'[id].bCloseAfterWriting]_vars

\* a ScheduleClose(true) has just been made on a descriptor whose immediate
\* close was scheduled alone, and is in force still
C2_AfterWritingFollowedImmediate ==
    /\ last.op = "ScheduleClose"
    /\ last.arg = <<TRUE>>
    /\ desc[last.id].bCloseNow
    /\ ~desc[last.id].bCloseAfterWriting

\* C3: after every operation on a stream or datagram descriptor, the byte
\* count it tracks is the sum over its queued pages of (length - offset); it
\* is never negative, and it is zero whenever the queue is empty.
C3_ByteCountIsWhatIsQueued ==
    \A id \in Ids :
        Streaming(id) =>
            /\ desc[id].OutboundDataSize = SumLeft(desc[id].OutboundPages)
            /\ desc[id].OutboundDataSize >= 0
            /\ desc[id].OutboundPages = <<>> => desc[id].OutboundDataSize = 0

\* a writable wake has just sent a page in part
C3_PartialWriteDone ==
    /\ last.op = "Write"
    /\ desc[last.id].OutboundPages # <<>>
    /\ desc[last.id].OutboundPages[1].Offset > 0

\* C6: Close() on a valid handle calls the Reactor's Deregister once, before
\* it releases the handle (shutdown, close), and leaves the handle invalid; a
\* later Close() neither deregisters nor releases.  So a descriptor is
\* deregistered at most once and its handle released at most once, whatever
\* the operations; and but for a file watch, whose destructor gives its handle
\* back itself, a handle is invalid exactly when Close() has deregistered it.
C6_DeregisteredOnceBeforeRelease ==
    /\ \A id \in Ids :
          /\ nDeregister[id] <= 1
          /\ nRelease[id] <= 1
          /\ ~IsKind(id, {"inotify"}) =>
                (desc[id].MySocket = INVALID_SOCKET <=> nDeregister[id] = 1)
    /\ \A k \in Place :
          trace[k].t = "Deregister" =>
              /\ trace[k].n # INVALID_SOCKET
              /\ desc[trace[k].d].MySocket = INVALID_SOCKET
              /\ \A j \in Place :
                    trace[j].d = trace[k].d =>
                        /\ trace[j].t = "Deregister" => j = k
                        /\ trace[j].t \in {"shutdown", "close"} => k < j
    /\ \A k \in Place :
          trace[k].t = "shutdown" =>
              \E j \in 1..(k - 1) :
                  trace[j].t = "Deregister" /\ trace[j].d = trace[k].d

\* the destructor's Close() has just run on a descriptor that a fatal error
\* had closed and released before: it did nothing
C6_SecondCloseDidNothing ==
    /\ last.op = "Destroy"
    /\ nDeregister[last.id] = 1
    /\ nRelease[last.id] = 1
    /\ \A k \in Place : trace[k].t \notin {"Deregister", "shutdown", "close"}

\* C7: Close() releases neither a handle whose value is 0, 1 or 2 nor the
\* handle of an attached descriptor; it still deregisters such a descriptor
\* and marks its handle invalid, so that ShouldDelete() is true of it.
C7_ReservedAndAttachedHandlesKept ==
    \A k \in Place :
        /\ trace[k].t \in {"shutdown", "close"} =>
              trace[k].n > 2 /\ ~desc[trace[k].d].bAttached
        /\ trace[k].t = "Deregister"
              /\ (trace[k].n <= 2 \/ desc[trace[k].d].bAttached) =>
              /\ \A j \in Place :
                    trace[j].d = trace[k].d =>
                        trace[j].t \notin {"shutdown", "close"}
              /\ desc[trace[k].d].MySocket = INVALID_SOCKET
              /\ ShouldDelete(desc[trace[k].d])

\* Close() has just run on a descriptor of handle 2 that is not attached
C7_ReservedHandleClosed ==
    \E k \in Place :
        /\ trace[k].t = "Deregister"
        /\ trace[k].n <= 2
        /\ ~desc[trace[k].d].bAttached

\* the step of the teardown an event of the destruction of id belongs to
\* (0: to none)
TeardownStep(e, id) ==
    CASE e.t = "ClearHeartbeat" -> 1
      [] e.t = "EM_CONNECTION_UNBOUND" -> 2
      [] e.t = "EM_PROXY_TARGET_UNBOUND" -> 3
      [] e.t = "SetProxiedFrom" /\ e.d = id -> 4
      [] e.t = "NumCloseScheduled--" -> 5
      [] e.t = "SetProxiedFrom" /\ e.d # id -> 6
      [] e.t \in {"Deregister", "shutdown", "close"} -> 7
      [] OTHER -> 0

\* C8, as the specification states it: a destruction clears the heartbeat
\* registration, fires the unbind event with the recorded reason code (once;
\* never for a wakeup-signal or a file-watch descriptor), tells the callback
\* the proxy target is unbound and detaches the upstream source, decrements
\* the pending-close counter, stops the outgoing proxy and finally closes the
\* socket, in this order.
C8_TeardownInOrder ==
    last.op = "Destroy" =>
        /\ Count(trace, "EM_CONNECTION_UNBOUND", last.id) =
              (IF IsKind(last.id, {"loopbreak", "inotify"}) THEN 0 ELSE 1)
        /\ \A k \in Places(trace, "EM_CONNECTION_UNBOUND", last.id) :
              trace[k].n = desc[last.id].UnbindReasonCode
        /\ Count(trace, "NumCloseScheduled--", last.id) = 1
        /\ \A i, j \in Place :
              /\ i < j
              /\ TeardownStep(trace[i], last.id) # 0
              /\ TeardownStep(trace[j], last.id) # 0
              => TeardownStep(trace[i], last.id) <= TeardownStep(trace[j], last.id)

----------------------------------------------------------------------------
(* Properties of a long queue (SpecFlush). *)

\* the bytes of a queue that are still to be sent, in order
RECURSIVE Unsent(_)
Unsent(pages) ==
    IF pages = <<>> THEN <<>>
    ELSE SubSeq(Head(pages).Buffer, Head(pages).Offset + 1,
                Len(Head(pages).Buffer))
         \o Unsent(Tail(pages))

\* C4: whatever the sends and the writable wakes of a stream connection, and
\* however many bytes each writev accepts of those it is offered, the bytes
\* the socket has accepted are a prefix of the bytes the sends queued, and
\* with the bytes still in the queue they are the bytes queued: none lost,
\* none twice, none out of order -- across pages sent in part and with more
\* than 16 pages queued.
C4_AcceptedIsPrefixOfQueued ==
    \A id \in Ids :
        IsKind(id, {"conn"}) =>
            /\ IsPrefix(wire[id], queued[id])
            /\ wire[id] \o Unsent(desc[id].OutboundPages) = queued[id]

\* a writev has just been given 16 pages of a longer queue and has taken all
\* of them
C4_SixteenOfMorePagesSent ==
    /\ last.op = "Write"
    /\ desc[last.id].OutboundPages # <<>>
    /\ desc[last.id].OutboundPages[1].Offset = 0
    /\ \E k \in Place :
          /\ trace[k].t = "writev"
          /\ trace[k].a = MaxIov
          /\ trace[k].n >= MaxIov

----------------------------------------------------------------------------
(* Properties of a stream the Reactor keeps waking (SpecLive). *)

StreamQueued ==
    desc[1].OutboundDataSize > 0 /\ ~IsCloseScheduled(desc[1])

StreamSent == desc[1].OutboundPages = <<>> /\ wire[1] = queued[1]

\* C5, as the specification states it: a connected stream with bytes queued
\* and no close scheduled, which is woken whenever its write interest is
\* armed and whose socket takes a byte or more at every wake, has eventually
\* sent all it queued and has an empty queue.
C5_QueuedIsEventuallySent == StreamQueued ~> StreamSent

\* C5, amended: the same, of a connection that is not paused, or is from
\* some time on never paused again.
C5_QueuedIsSentUnlessPaused ==
    <>[](~desc[1].bPaused) => (StreamQueued ~> StreamSent)

\* the last of the bytes the application sent has just been accepted
C5_AllSent ==
    /\ last.op = "Write"
    /\ StreamSent
    /\ Len(wire[1]) = LiveBytes

----------------------------------------------------------------------------
(* Properties of a proxy (SpecProxy). *)

\* C9: of the inbound bytes of a source since its StartProxy with limit L > 0,
\* the first L are forwarded to the target and every later one is delivered
\* to the source's callback as inbound data; what is forwarded and what is
\* delivered of a chunk make up the chunk, split at the limit, nothing dropped
\* and nothing twice.  With L = 0 every byte is forwarded, none delivered.
C9_ForwardedUpToTheLimit ==
    \A i \in Ids :
        px[i].on =>
            LET cut == IF px[i].limit > 0
                       THEN Min(px[i].limit, px[i].seen)
                       ELSE px[i].seen
            IN  /\ px[i].fwd = Bytes(0, cut)
                /\ px[i].rd = Bytes(cut, px[i].seen - cut)

\* a read wake has just split a chunk at the limit
C9_ChunkSplit ==
    /\ last.op = "Read"
    /\ px[last.id].on
    /\ px[last.id].limit > 0
    /\ \E k \in Place :
          /\ trace[k].t = "Forward"
          /\ trace[k].n > 0
          /\ k + 1 < Len(trace)
    /\ Len(px[last.id].fwd) = px[last.id].limit
    /\ px[last.id].rd # <<>>

\* C10: when what a proxy with limit L > 0 has forwarded reaches L, the
\* source detaches from the target (the source has no target, the target no
\* source and no threshold), then the proxy-completed event fires, once for
\* that StartProxy, and only then is the rest of the chunk delivered as a
\* connection-read event; no proxy-completed event fires before the limit is
\* reached, and none for a proxy without a limit.
C10_CompletedOnceAtTheLimit ==
    /\ \A i \in Ids :
          px[i].on =>
              /\ px[i].done =
                    (IF px[i].limit > 0 /\ px[i].seen >= px[i].limit
                     THEN 1 ELSE 0)
              /\ px[i].done = 1 => desc[i].ProxyTarget = NULL
    /\ \A k \in Place :
          trace[k].t = "EM_PROXY_COMPLETED" =>
              /\ px[trace[k].d].on
              /\ Count(trace, "EM_PROXY_COMPLETED", trace[k].d) = 1
              /\ \E j \in 1..(k - 1) :
                    /\ trace[j].t = "SetProxiedFrom"
                    /\ trace[j].a = NULL
                    /\ desc[trace[j].d].ProxiedFrom = NULL
                    /\ desc[trace[j].d].MaxOutboundBufSize = 0
              /\ \A j \in Place :
                    trace[j].d = trace[k].d =>
                        /\ trace[j].t = "Forward" => j < k
                        /\ trace[j].t = "EM_CONNECTION_READ" => k < j

\* a read wake has just completed a proxy and delivered the rest of the
\* chunk to the callback
C10_CompletedThenRest ==
    \E k \in Place :
        /\ trace[k].t = "EM_PROXY_COMPLETED"
        /\ k < Len(trace)
        /\ trace[k + 1].t = "EM_CONNECTION_READ"
        /\ trace[k + 1].d = trace[k].d

----------------------------------------------------------------------------
(* Three connections: the first and the third may each proxy to the second. *)

InitBusy == InitWith(<<Accepted(3), Accepted(4), Accepted(5)>>)

Rivals == {1, 3}

\* what the read() calls of a wake answer here: a chunk, or the end of the
\* stream
BusyScripts == {<<1>>, <<0>>}

NextBusy ==
    \/ \E id \in Rivals, to \in Targets, b \in BufSizes, n \in 0..1 :
            AppStartProxy(id, to, b, n)
    \/ \E id \in Rivals : AppStopProxy(id)
    \/ \E id \in Rivals, rs \in BusyScripts : ReadWake(id, rs)
    \/ \E id \in Ids : ReactorDestroy(id)

SpecBusy == InitBusy /\ [][NextBusy]_vars

\* C11, as the specification states it: a StartProxy from a source to a
\* target that has another source faults and corrupts nothing: the target's
\* source and threshold are as before, that source still forwards to the
\* target, and the caller does not record the target as its proxy target.
C11_BusyTargetFaultLeavesNoTrace ==
    last.op = "StartProxy" /\ fault = "Tried to proxy to a busy target" =>
        /\ desc[last.arg[1]].ProxiedFrom \notin {NULL, last.id}
        /\ desc[desc[last.arg[1]].ProxiedFrom].ProxyTarget = last.arg[1]
        /\ desc[last.id].ProxyTarget # last.arg[1]


----------------------------------------------------------------------------
(* Backpressure of a sink on its source (SpecProxy). *)

\* a sink, its threshold set, and the source attached to it
Throttled(D, t) ==
    /\ D[t].ProxiedFrom # NULL
    /\ D[t].MaxOutboundBufSize > 0

NoDoublePauseOrResume ==
    \A k \in 1..Len(trace') :
        /\ last'.op \in {"Read", "Write"} /\ trace'[k].t = "Pause" =>
              /\ ~desc[trace'[k].d].bPaused
              /\ Count(trace', "Pause", trace'[k].d) = 1
              /\ Count(trace', "Resume", trace'[k].d) = 0
        /\ last'.op \in {"Read", "Write"} /\ trace'[k].t = "Resume" =>
              /\ desc[trace'[k].d].bPaused
              /\ Count(trace', "Resume", trace'[k].d) = 1
              /\ Count(trace', "Pause", trace'[k].d) = 0

----------------------------------------------------------------------------
(* One descriptor and the clock: the loop time moves on between the
   Reactor's calls, a millisecond at a time. *)

\* the milliseconds the clock runs for
MaxTicks == 2

\* the timeouts the application sets, in milliseconds: none, one shorter than
\* the timer quantum, one longer
Timeouts == {0, 1, TimerQuantumMs + 1}

InitTimer ==
    \E d \in {Connecting(3), Accepted(3), Attached(3, TRUE),
              DatagramDescriptor(3, 0)} : InitWith(<<d>>)

\* the Reactor's loop time, in microseconds, as a new pass of the loop reads it
Tick ==
    /\ now < MaxTicks * 1000
    /\ now' = now + 1000
    /\ trace' = <<>>
    /\ fault' = ""
    /\ last' = Op("Tick", 0, <<>>)
    /\ UNCHANGED <<desc, NumCloseScheduled, wire, queued, nDeregister,
                   nRelease, px>>

NextTimer ==
    \/ Tick
    \/ \E id \in Ids, v \in Timeouts : AppSetCommInactivityTimeout(id, v)
    \/ \E id \in Ids, v \in 0..1 : AppSetPendingConnectTimeout(id, v)
    \/ \E id \in Ids : AppScheduleClose(id, TRUE)
    \/ \E id \in Ids : AppSend(id, 1)
    \/ \E id \in Ids : AppPause(id)
    \/ \E id \in Ids : AppResume(id)
    \/ \E id \in Ids, so \in SockOptOutcomes, res \in {0 - EAGAIN, 0, 1} :
            WriteWake(id, so, res)
    \/ \E id \in Ids : ReadWake(id, <<1>>)
    \/ \E id \in Ids : DgReadWake(id, <<<<1, 7>>>>)
    \/ \E id \in Ids : HeartbeatWake(id)
    \/ \E id \in Ids : ReactorDestroy(id)

SpecTimer == InitTimer /\ [][NextTimer]_vars

\* the descriptor's deadline has passed at time t, as the specification
\* counts it: the age of a pending connect, the idle time of the others
Expired(d, t) ==
    IF d.kind = "conn" /\ d.bConnectPending
    THEN t - d.CreatedAt >= d.PendingConnectTimeout
    ELSE d.InactivityTimeout # 0 /\ t - d.LastActivity >= d.InactivityTimeout

\* C14, as the specification states it: a Heartbeat of a connect-pending
\* descriptor whose age is at least its pending-connect timeout, or of a
\* stream or datagram descriptor that is not pending and whose idle time is
\* at least its inactivity timeout, schedules a close and records the
\* deadline-exceeded reason code.  (A watch-only connection, which refuses
\* every close, is left aside.)
C14_TimeoutClosesWithReason ==
    last.op = "Heartbeat" /\ ~desc[last.id].bWatchOnly
        /\ Expired(desc[last.id], now) =>
            /\ IsCloseScheduled(desc[last.id])
            /\ desc[last.id].UnbindReasonCode = ETIMEDOUT

\* the test Heartbeat makes at time t: a connection that is not pending adds
\* the timer quantum to its idle time
TimedOut(d, t) ==
    IF d.kind = "conn" /\ ~d.bConnectPending
    THEN /\ d.InactivityTimeout # 0
         /\ TimerQuantumMs * 1000 + t - d.LastActivity >= d.InactivityTimeout
    ELSE Expired(d, t)

\* C15: a close that a timeout triggers in Heartbeat (the pending connect's or
\* the inactivity timeout's) is an immediate one: right after that Heartbeat
\* ShouldDelete() is true, also when the outbound queue holds bytes and when
\* a close after writing was scheduled before.
C15_TimeoutCloseIsImmediate ==
    last.op = "Heartbeat" /\ fault = "" /\ TimedOut(desc[last.id], now) =>
        /\ desc[last.id].bCloseNow
        /\ ShouldDelete(desc[last.id])

\* a Heartbeat has just timed out a descriptor that was closing after writing
\* with bytes still queued
C15_TimedOutWithBytesQueued ==
    /\ last.op = "Heartbeat"
    /\ fault = ""
    /\ TimedOut(desc[last.id], now)
    /\ desc[last.id].bCloseAfterWriting
    /\ desc[last.id].OutboundDataSize > 0
    /\ ShouldDelete(desc[last.id])

----------------------------------------------------------------------------
(* One stream or datagram descriptor and its socket's answers: what read(),
   writev() and sendto() return, errors among them. *)

InitIO ==
    \E d \in {Accepted(3), Attached(2, FALSE), Attached(3, TRUE),
              DatagramDescriptor(3, 0)} : InitWith(<<d>>)

NextIO ==
    \/ \E id \in Ids : AppScheduleClose(id, TRUE)
    \/ \E id \in Ids, n \in 1..MaxSendLen : AppSend(id, n)
    \/ \E id \in Ids : AppPause(id)
    \/ \E id \in Ids : AppResume(id)
    \/ \E id \in Ids, v \in 0..1 : AppSetCommInactivityTimeout(id, v)
    \/ \E id \in Ids, rs \in ReadScripts : ReadWake(id, rs)
    \/ \E id \in Ids, res \in WriteOutcomes : WriteWake(id, 0, res)
    \/ \E id \in Ids, outs \in DgOutScripts : DgWriteWake(id, outs)
    \/ \E id \in Ids : HeartbeatWake(id)
    \/ \E id \in Ids : ReactorDestroy(id)

SpecIO == InitIO /\ [][NextIO]_vars

\* the places of descriptor i's read() calls in the events ev
Reads(ev, i) == Places(ev, "read", i)

\* total_bytes_read of the wake whose events are ev
TotalRead(ev, i) == Len(TraceBytes(ev, "read", i))

\* the wake's last read() was answered by a transient error: it would block,
\* or was interrupted
EndedTransient(ev, i) ==
    \E k \in Reads(ev, i) :
        /\ ev[k].n \in {0 - EAGAIN, 0 - EINTR}
        /\ \A j \in Reads(ev, i) : j <= k

CloseState(d) == <<d.bCloseNow, d.bCloseAfterWriting>>

C17_CloseIffNothingRead ==
    [][/\ last'.op = "Read"
       /\ desc[last'.id].MySocket # INVALID_SOCKET
       /\ ~desc[last'.id].bWatchOnly
       => IF TotalRead(trace', last'.id) = 0
          THEN /\ desc'[last'.id].bCloseNow
               /\ NumCloseScheduled' =
                     IF IsCloseScheduled(desc[last'.id])
                     THEN NumCloseScheduled ELSE NumCloseScheduled + 1
          ELSE /\ CloseState(desc'[last'.id]) = CloseState(desc[last'.id])
               /\ NumCloseScheduled' = NumCloseScheduled]_vars

\* a read wake has just met the end of the stream on its first read()
C17_EndOfStreamAtOnce ==
    /\ last.op = "Read"
    /\ Reads(trace, last.id) = {1}
    /\ trace[1].n = 0
    /\ desc[last.id].bCloseNow
    /\ desc[last.id].MySocket # INVALID_SOCKET

\* the places in the events ev where read(), writev() or sendto() answered
\* descriptor i with an error that is not transient
Fatal(ev, i) ==
    {k \in 1..Len(ev) :
        /\ ev[k].t \in {"read", "writev", "sendto"}
        /\ ev[k].d = i
        /\ ev[k].n < 0
        /\ ~IsTransient(0 - ev[k].n)}

\* the wake that has just run met a fatal error, and the descriptor holds
\* that error's code, its handle deregistered and closed
ClosedForError ==
    \A k \in Fatal(trace', last'.id) :
        /\ desc'[last'.id].UnbindReasonCode = 0 - trace'[k].n
        /\ desc'[last'.id].MySocket = INVALID_SOCKET
        /\ Count(trace', "Deregister", last'.id) = 1
        /\ ShouldDelete(desc'[last'.id])

\* descriptor i is destroyed in this step, and its unbind event carries the
\* reason it held
UnboundWithReason(i) ==
    /\ last'.op = "Destroy"
    /\ last'.id = i
    /\ \E k \in Places(trace', "EM_CONNECTION_UNBOUND", i) :
          trace'[k].n = desc[i].UnbindReasonCode

----------------------------------------------------------------------------
(* The end of a pending connect (SpecTimer). *)

----------------------------------------------------------------------------
(* A connection that starts TLS: the adaptor's answers are the environment's,
   as the socket's are. *)

\* the most chunks of ciphertext the adaptor produces
MaxCipher == 2

\* the adaptor is about to answer GetPlaintext with plain and PutPlaintext
\* with put, and has c more chunks of ciphertext ready
Feed(W, id, plain, put, c) ==
    [W EXCEPT !.desc[id].Ssl.plain = plain,
              !.desc[id].Ssl.put = put,
              !.desc[id].Ssl.ct = @ + c]

\* the answers the call did not ask for are not kept
Unfed(W, id) ==
    [W EXCEPT !.desc[id].Ssl.plain = <<>>, !.desc[id].Ssl.put = <<>>]

\* answers an SslBox_t can give, the handshake being completed or not: it has
\* plaintext only once the handshake is completed, reports a failed handshake
\* only before, and completes it once
RECURSIVE Plausible(_, _)
Plausible(plain, done) ==
    IF plain = <<>> THEN TRUE
    ELSE /\ Head(plain)[1] > 0 => done \/ Head(plain)[2]
         /\ Head(plain)[1] = -2 => ~done /\ ~Head(plain)[2]
         /\ Head(plain)[2] => ~done
         /\ Plausible(Tail(plain), done \/ Head(plain)[2])

PlainAnswers == {<<s, h>> : s \in {1, 0, -1, -2}, h \in BOOLEAN}

PlainTapes ==
    {<<>>} \cup {<<a>> : a \in PlainAnswers}
           \cup {<<a, b>> : a \in PlainAnswers, b \in PlainAnswers}

PutTapes == {<<>>, <<1>>, <<-1>>, <<1, -1>>}

AppStartTls(id, c) ==
    /\ Live(id)
    /\ IsKind(id, {"conn"})
    /\ desc[id].SslBox => c = 0
    /\ desc[id].Ssl.out + desc[id].Ssl.ct + c <= MaxCipher
    /\ Commit(Unfed(StartTls(Feed(World, id, <<>>, <<>>, c), id), id),
              Op("StartTls", id, <<>>))
    /\ UNCHANGED <<now, queued>>

\* send_data on a connection that runs TLS
AppSendTls(id, n, put) ==
    /\ Live(id)
    /\ IsKind(id, {"conn"})
    /\ desc[id].SslBox
    /\ desc[id].Ssl.out + desc[id].Ssl.ct + Len(put) <= MaxCipher
    /\ Commit(Unfed(SendOutboundData(Feed(World, id, <<>>, put, 0), id,
                                     Bytes(0, n)), id),
              Op("SendOutboundData", id, <<n>>))
    /\ UNCHANGED <<now, queued>>

\* the poller reports the handle of a connection that runs TLS readable
TlsReadWake(id, rs, plain, put, c) ==
    /\ Live(id)
    /\ IsKind(id, {"conn"})
    /\ desc[id].MySocket # INVALID_SOCKET
    /\ desc[id].epollIn
    /\ desc[id].SslBox
    /\ Plausible(plain, desc[id].Ssl.done)
    /\ desc[id].Ssl.out + desc[id].Ssl.ct + Len(put) + c <= MaxCipher
    /\ Commit(Unfed(ConnRead(Feed(World, id, plain, put, c), id, rs, 0, now),
                    id),
              Op("Read", id, <<>>))
    /\ UNCHANGED <<now, queued>>

InitTls == InitWith(<<Accepted(3)>>)

NextTls ==
    \/ \E id \in Ids, c \in 0..1 : AppStartTls(id, c)
    \/ \E id \in Ids, n \in 0..1, put \in PutTapes : AppSendTls(id, n, put)
    \/ \E id \in Ids, rs \in {<<1>>, <<1, 1>>, <<0>>}, plain \in PlainTapes,
          put \in PutTapes, c \in 0..1 : TlsReadWake(id, rs, plain, put, c)
    \/ \E id \in Ids, res \in {0 - EAGAIN, 1, 0 - ECONNRESET} :
            WriteWake(id, 0, res)
    \/ \E id \in Ids : ReactorDestroy(id)

SpecTls == InitTls /\ [][NextTls]_vars

\* C20: on a connection that runs TLS the handshake-completed event fires at
\* most once in the connection's life, and it has fired once the adaptor has
\* reported the handshake completed, however many chunks come in, however
\* much plaintext is drained and however often the adaptor is pumped, in that
\* wake or a later one.
C20_HandshakeSignaledOnce ==
    [][\A i \in Ids :
          /\ Count(trace', "EM_SSL_HANDSHAKE_COMPLETED", i) <= 1
          /\ Count(trace', "EM_SSL_HANDSHAKE_COMPLETED", i) = 1 =>
                ~desc[i].bHandshakeSignaled /\ desc'[i].bHandshakeSignaled
          /\ desc[i].bHandshakeSignaled => desc'[i].bHandshakeSignaled
          /\ IsHandshakeCompleted(desc'[i]) /\ ~IsHandshakeCompleted(desc[i])
                => Count(trace', "EM_SSL_HANDSHAKE_COMPLETED", i) = 1
          /\ IsHandshakeCompleted(desc'[i]) => desc'[i].bHandshakeSignaled]_vars

\* a read wake has just brought two chunks, the handshake was completed on
\* the first, and plaintext was delivered after it
C20_CompletedAmidChunks ==
    /\ last.op = "Read"
    /\ Count(trace, "read", last.id) >= 2
    /\ Count(trace, "EM_SSL_HANDSHAKE_COMPLETED", last.id) = 1
    /\ Count(trace, "EM_CONNECTION_READ", last.id) >= 2
    /\ Count(trace, "PutCiphertext", last.id) = 2

\* the places in the events ev where the adaptor reported a failure to
\* descriptor i: a failed handshake as plaintext is drained, a fatal error as
\* plaintext is put, in a send or in the pump
TlsFailures(ev, i) ==
    {k \in 1..Len(ev) :
        /\ ev[k].d = i
        /\ \/ ev[k].t = "s = GetPlaintext" /\ ev[k].n = -2
           \/ ev[k].t = "w = PutPlaintext" /\ ev[k].n < 0}

\* C21, as the specification states it: every failure the adaptor reports,
\* as inbound plaintext is drained, as outbound plaintext is put in a send or
\* as the drain loop pumps, schedules an immediate close and records the
\* protocol-abort reason code, and the unbind event carries the reason the
\* descriptor holds.
C21_TlsFailureClosesWithReason ==
    [][\A i \in Ids :
          /\ TlsFailures(trace', i) # {} =>
                /\ desc'[i].bCloseNow
                /\ desc'[i].UnbindReasonCode = EPROTO
          /\ last'.op = "Destroy" /\ last'.id = i =>
                \A k \in Places(trace', "EM_CONNECTION_UNBOUND", i) :
                    trace'[k].n = desc[i].UnbindReasonCode]_vars

----------------------------------------------------------------------------
(* A datagram socket: datagrams come in from two peers, replies and datagrams
   to named peers go out, at times more of them than one Write sends. *)

\* the one-byte replies queued before the first wake, when any are
DgQueued == 11

InitDgram ==
    \E k \in {0, DgQueued} :
        /\ desc = SendOnes(WorldOf(<<DatagramDescriptor(3, 0)>>), 1, 1, k).desc
        /\ NumCloseScheduled = 0
        /\ now = 0
        /\ trace = <<>>
        /\ fault = ""
        /\ last = Op("", 0, <<>>)
        /\ wire = <<<<>>>>
        /\ queued = <<Bytes(0, k)>>
        /\ nDeregister = <<0>>
        /\ nRelease = <<0>>
        /\ px = <<NoProxy>>

\* a peer the application names itself
NamedPeers == {9}

NextDgram ==
    \/ \E id \in Ids, ds \in DgScripts : DgReadWake(id, ds)
    \/ \E id \in Ids, n \in 0..1 : AppSend(id, n)
    \/ \E id \in Ids, n \in 0..1, a \in NamedPeers \cup {0, -1} :
            AppSendDatagram(id, n, a)
    \/ \E id \in Ids, outs \in DgOutScripts : DgWriteWake(id, outs)
    \/ \E id \in Ids : AppScheduleClose(id, TRUE)
    \/ \E id \in Ids : ReactorDestroy(id)

SpecDgram == InitDgram /\ [][NextDgram]_vars

\* the events named t of descriptor i, in order
RECURSIVE Sel(_, _, _)
Sel(ev, t, i) ==
    IF ev = <<>> THEN <<>>
    ELSE (IF Head(ev).t = t /\ Head(ev).d = i THEN <<Head(ev)>> ELSE <<>>)
         \o Sel(Tail(ev), t, i)

\* the sender of the last datagram the events ev received, or else a
LastSender(ev, i, a) ==
    LET got == {k \in Places(ev, "recvfrom", i) : ev[k].n >= 0}
    IN  IF got = {} THEN a
        ELSE ev[CHOOSE k \in got : \A j \in got : j <= k].a

\* C22: in a Read wake of a datagram socket every datagram received, one of
\* no bytes too, is dispatched as an inbound event of its own, with the reply
\* address set to its sender; a reply queued with SendOutboundData is tagged
\* with the reply address of that moment, the sender of the datagram received
\* last, and is sent to that address, whatever comes in after it is queued.
C22_ReplyGoesToTheSender ==
    [][\A i \in Ids :
          /\ last'.op = "DgRead" /\ last'.id = i =>
                /\ \A k \in Places(trace', "recvfrom", i) :
                      trace'[k].n >= 0 =>
                          /\ k < Len(trace')
                          /\ trace'[k + 1].t = "EM_CONNECTION_READ"
                          /\ trace'[k + 1].d = i
                          /\ trace'[k + 1].n = trace'[k].n
                          /\ Len(trace'[k + 1].data) = trace'[k].n
                          /\ trace'[k + 1].a = trace'[k].a
                /\ \A k \in Places(trace', "EM_CONNECTION_READ", i) :
                      /\ k > 1
                      /\ trace'[k - 1].t = "recvfrom"
                      /\ trace'[k - 1].n >= 0
                /\ desc'[i].ReturnAddress =
                      LastSender(trace', i, desc[i].ReturnAddress)
                /\ desc'[i].OutboundPages = desc[i].OutboundPages
          /\ last'.op # "DgRead" =>
                desc'[i].ReturnAddress = desc[i].ReturnAddress
          /\ last'.op = "SendOutboundData" /\ last'.id = i
                /\ ~IsCloseScheduled(desc[i]) =>
                /\ Len(desc'[i].OutboundPages) = Len(desc[i].OutboundPages) + 1
                /\ SubSeq(desc'[i].OutboundPages, 1, Len(desc[i].OutboundPages))
                      = desc[i].OutboundPages
                /\ desc'[i].OutboundPages[Len(desc'[i].OutboundPages)].From
                      = desc[i].ReturnAddress
                /\ Len(desc'[i].OutboundPages[Len(desc'[i].OutboundPages)].Buffer)
                      = last'.arg[1]
          /\ last'.op = "DgWrite" /\ last'.id = i =>
                \A k \in 1..Len(Sel(trace', "sendto", i)) :
                    /\ Sel(trace', "sendto", i)[k].a
                          = desc[i].OutboundPages[k].From
                    /\ Sel(trace', "sendto", i)[k].data
                          = desc[i].OutboundPages[k].Buffer]_vars

\* a reply of no bytes to the first peer has just been sent, after a
\* datagram of the second peer came in
C22_ReplySentToEarlierSender ==
    /\ last.op = "DgWrite"
    /\ desc[last.id].ReturnAddress = 8
    /\ \E k \in Places(trace, "sendto", last.id) :
          trace[k].a = 7 /\ trace[k].data = <<>> /\ trace[k].n = 0

\* C23: a Write wake of a datagram socket attempts at most 10 of the queued
\* messages, in the order they were queued, and removes every message it
\* attempted, whatever sendto() answered; none is attempted twice; an error
\* that is not transient becomes the unbind reason, closes the handle and
\* ends the burst, and the messages not attempted stay queued.
C23_EachMessageAttemptedOnce ==
    [][\A i \in Ids :
          last'.op = "DgWrite" /\ last'.id = i /\ fault' = "" =>
              LET sent == Sel(trace', "sendto", i)
                  n == Len(sent)
                  pages == desc[i].OutboundPages
              IN  /\ n >= 1
                  /\ n <= MaxBurst
                  /\ n <= Len(pages)
                  /\ \A k \in 1..n :
                        /\ sent[k].data = pages[k].Buffer
                        /\ sent[k].a = pages[k].From
                        /\ sent[k].n < 0 /\ ~IsTransient(0 - sent[k].n) =>
                              /\ k = n
                              /\ desc'[i].UnbindReasonCode = 0 - sent[k].n
                              /\ desc'[i].MySocket = INVALID_SOCKET
                              /\ Count(trace', "Deregister", i) = 1
                  /\ desc'[i].OutboundPages = SubSeq(pages, n + 1, Len(pages))
                  /\ desc'[i].OutboundDataSize
                        = SumLeft(desc'[i].OutboundPages)
                  /\ Fatal(trace', i) = {} =>
                        /\ n = Min(MaxBurst, Len(pages))
                        /\ desc'[i].MySocket = desc[i].MySocket
                        /\ desc'[i].UnbindReasonCode = desc[i].UnbindReasonCode]_vars

\* a Write wake has just attempted 10 of 11 queued messages, one of which the
\* socket would not take, and has left the eleventh
C23_TenOfElevenAttempted ==
    /\ last.op = "DgWrite"
    /\ Count(trace, "sendto", last.id) = MaxBurst
    /\ Len(desc[last.id].OutboundPages) = DgQueued - MaxBurst
    /\ \E k \in Places(trace, "sendto", last.id) : trace[k].n = 0 - EAGAIN

----------------------------------------------------------------------------
(* A listener and the connections it accepts. *)

\* the most connections the listener is let accept
MaxConns == 2

\* the values the Reactor's simultaneous accept count is set to
AcceptCounts == {1, 2}

AcceptOutcomes == {"conn", "late", "unset", "none"}

\* how the attempts of one wake go
AcceptScripts ==
    {<<>>} \cup {<<a>> : a \in AcceptOutcomes}
           \cup {<<a, b>> : a \in AcceptOutcomes, b \in AcceptOutcomes}

\* f, with v for the descriptors the world W has more
Grown(f, W, v) ==
    [i \in DOMAIN W.desc |-> IF i \in DOMAIN f THEN f[i] ELSE v]

\* what a call that makes descriptors, and does nothing to those there
\* are, leaves behind
CommitGrown(W, op) ==
    /\ desc' = W.desc
    /\ NumCloseScheduled' = W.ncs
    /\ trace' = W.ev
    /\ fault' = W.fault
    /\ last' = op
    /\ wire' = Grown(wire, W, <<>>)
    /\ queued' = Grown(queued, W, <<>>)
    /\ nDeregister' = Grown(nDeregister, W, 0)
    /\ nRelease' = Grown(nRelease, W, 0)
    /\ px' = Grown(px, W, NoProxy)

\* the poller reports the listener readable
AcceptWake(id, as, count) ==
    /\ Live(id)
    /\ IsKind(id, {"acceptor"})
    /\ desc[id].MySocket # INVALID_SOCKET
    /\ desc[id].epollIn
    /\ Len(desc) + count <= MaxConns + 1
    /\ CommitGrown(AcceptorRead(World, id, as, count, now),
                   Op("Accept", id, <<count>>))
    /\ UNCHANGED now

InitAccept == InitWith(<<AcceptorDescriptor(3, 0)>>)

NextAccept ==
    \/ \E id \in Ids, as \in AcceptScripts, c \in AcceptCounts :
            AcceptWake(id, as, c)
    \/ \E id \in Ids : AppScheduleClose(id, FALSE)
    \/ \E id \in Ids, rs \in BusyScripts : ReadWake(id, rs)
    \/ \E id \in Ids : queued[id] = <<>> /\ AppSend(id, 1)
    \/ \E id \in Ids : WriteWake(id, 0, 1)
    \/ \E id \in Ids : ReactorDestroy(id)

SpecAccept == InitAccept /\ [][NextAccept]_vars

\* the ids of the connections made in the step
Made == (DOMAIN desc') \ (DOMAIN desc)

\* the attempt that starts at place k of the events ev found nothing to
\* accept: accept4() and accept() both failed
NothingToAccept(ev, k) ==
    /\ ev[k].t = "accept4"
    /\ ev[k].n = INVALID_SOCKET
    /\ k < Len(ev)
    /\ ev[k + 1].t = "accept"
    /\ ev[k + 1].n = INVALID_SOCKET

\* C24: one Read wake of a listener makes at most as many accept attempts as
\* the Reactor's count says; the first attempt that fails ends the burst, and
\* neither closes the listener nor raises a fault; for every accepted handle
\* that is set up one stream connection in server mode is made, one
\* connection-accepted event carrying its identity fires, and it is added
\* to the Reactor once; an accepted handle that cannot be set up is released,
\* with no event and no registration, and the burst goes on.
C24_OneConnectionPerAcceptedHandle ==
    [][last'.op = "Accept" =>
          LET i == last'.id
              tries == Places(trace', "accept4", i)
              got == {k \in 1..Len(trace') :
                        /\ trace'[k].t \in {"accept4", "accept"}
                        /\ trace'[k].d = i
                        /\ trace'[k].n # INVALID_SOCKET}
              unset == {k \in 1..Len(trace') :
                          trace'[k].t = "SetSocketNonblocking"}
          IN  /\ Cardinality(tries) <= last'.arg[1]
              /\ fault' = ""
              /\ desc'[i] = desc[i]
              /\ NumCloseScheduled' = NumCloseScheduled
              /\ \A k \in tries :
                    NothingToAccept(trace', k) => k + 1 = Len(trace')
              /\ \/ Cardinality(tries) = last'.arg[1]
                 \/ \E k \in tries : NothingToAccept(trace', k)
              /\ \A j \in DOMAIN desc : desc'[j] = desc[j]
              /\ Cardinality(Made) = Cardinality(got) - Cardinality(unset)
              /\ \A j \in Made :
                    /\ desc'[j].kind = "conn"
                    /\ desc'[j].bIsServer
                    /\ desc'[j].live
                    /\ Cardinality({k \in 1..Len(trace') :
                            /\ trace'[k].t = "EM_CONNECTION_ACCEPTED"
                            /\ trace'[k].a = j}) = 1
                    /\ Count(trace', "Add", j) = 1
                    /\ \E k \in got :
                          /\ trace'[k].n = desc'[j].MySocket
                          /\ trace'[k + 1].t = "EM_CONNECTION_ACCEPTED"
                          /\ trace'[k + 1].a = j
              /\ \A k \in 1..Len(trace') :
                    /\ trace'[k].t = "EM_CONNECTION_ACCEPTED" =>
                          trace'[k].d = i /\ trace'[k].a \in Made
                    /\ trace'[k].t = "Add" => trace'[k].d \in Made
              /\ \A k \in unset :
                    /\ k > 1 /\ k - 1 \in got
                    /\ trace'[k - 1].n = trace'[k].n
                    /\ trace'[k + 1].t = "shutdown"
                    /\ trace'[k + 1].n = trace'[k].n
                    /\ trace'[k + 2].t = "close"
                    /\ trace'[k + 2].n = trace'[k].n
                    /\ k + 2 < Len(trace') =>
                          trace'[k + 3].t = "accept4"]_vars

\* a wake has just met a handle it could not set up and released it, and
\* accepted a connection on its next attempt
C24_AcceptedAfterSetupFailure ==
    /\ last.op = "Accept"
    /\ \E k \in Place :
          /\ trace[k].t = "close"
          /\ k + 2 < Len(trace)
          /\ trace[k + 1].t = "accept4"
          /\ trace[k + 2].t = "EM_CONNECTION_ACCEPTED"
          /\ trace[k + 3].t = "Add"
    /\ Count(trace, "EM_CONNECTION_ACCEPTED", last.id) = 1
    /\ Len(desc) = 2

----------------------------------------------------------------------------
(* Faults of the entry points the poller drives (SpecTimer). *)

\* C25, as the specification states it: no entry point of a stream
\* connection that the poller drives (Read, Write, HandleError, Heartbeat)
\* raises a fault to the Reactor, a watch-only connection with a timeout
\* included; what cannot be recovered from is recorded as the unbind reason,
\* with a close scheduled.
C25_NoFaultFromPollDrivenEntry ==
    /\ last.op \in {"Read", "Write", "HandleError", "Heartbeat"}
    /\ desc[last.id].kind = "conn"
    => /\ fault = ""
       /\ last.op = "Heartbeat" /\ TimedOut(desc[last.id], now) =>
             /\ IsCloseScheduled(desc[last.id])
             /\ desc[last.id].UnbindReasonCode = ETIMEDOUT

----------------------------------------------------------------------------
(* The inactivity timeout, set and read back (SpecTimer). *)

\* C26, as the specification states it: for a stream and a datagram
\* descriptor alike, an inactivity timeout set to 0 is disabled, whatever it
\* was before: it reads back as 0 and no Heartbeat closes the descriptor for
\* inactivity; one set to v > 0 milliseconds reads back as v.
C26_TimeoutReadsBackAsSet ==
    [][\A i \in Ids :
          /\ last'.op = "SetCommInactivityTimeout" /\ last'.id = i =>
                GetCommInactivityTimeout(desc'[i]) = last'.arg[1]
          /\ /\ last'.op = "Heartbeat"
             /\ last'.id = i
             /\ GetCommInactivityTimeout(desc[i]) = 0
             /\ ~desc[i].bConnectPending
             => /\ CloseState(desc'[i]) = CloseState(desc[i])
                /\ desc'[i].UnbindReasonCode = desc[i].UnbindReasonCode
                /\ fault' = ""]_vars

----------------------------------------------------------------------------
(* The application's calls, those a descriptor refuses among them: a
   watch-only connection, a stream connection or a datagram socket, and a
   second connection to proxy to. *)

InitApi ==
    \E d \in {Attached(3, TRUE), Accepted(3), DatagramDescriptor(3, 0)} :
        InitWith(<<d, Accepted(4)>>)

\* the file name SetTlsParms is given
CertNames == {"chain.pem"}

NextApi ==
    \/ now = 0 /\ Tick
    \/ \E id \in Sources : queued[id] = <<>> /\ AppSend(id, 1)
    \/ \E id \in Sources : AppScheduleClose(id, TRUE)
    \/ \E id \in Sources : AppPause(id)
    \/ \E id \in Sources : AppResume(id)
    \/ \E id \in Sources, b \in BOOLEAN : AppSetNotifyReadable(id, b)
    \/ \E id \in Sources, b \in BOOLEAN : AppSetNotifyWritable(id, b)
    \/ \E id \in Sources : AppStartTls(id, 0)
    \/ \E id \in Sources, c \in CertNames : AppSetTlsParms(id, c, TRUE)
    \/ \E id \in Sources, to \in Targets : AppStartProxy(id, to, 0, 0)
    \/ \E id \in Sources, n \in 0..1, a \in NamedPeers \cup {0, -1} :
            queued[id] = <<>> /\ AppSendDatagram(id, n, a)
    \/ \E id \in Sources : ReadWake(id, <<1>>)
    \/ \E id \in Sources : StaleReadWake(id)
    \/ \E id \in Sources : WriteWake(id, 0, 1)
    \/ \E id \in Sources : ErrorWake(id)
    \/ \E id \in Ids : ReactorDestroy(id)

SpecApi == InitApi /\ [][NextApi]_vars

\* the call made in this step is one the descriptor refuses
Misuse ==
    IF last'.id \notin Ids THEN FALSE
    ELSE \/ /\ last'.op \in {"SendOutboundData", "ScheduleClose", "Pause",
                              "Resume"}
            /\ desc[last'.id].kind = "conn"
            /\ desc[last'.id].bWatchOnly
         \/ /\ last'.op \in {"SetNotifyReadable", "SetNotifyWritable"}
            /\ ~desc[last'.id].bWatchOnly
         \/ /\ last'.op \in {"StartTls", "SetTlsParms"}
            /\ desc[last'.id].SslBox
         \/ /\ last'.op = "StartProxy"
            /\ ~desc[last'.arg[1]].live
         \/ /\ last'.op = "SendOutboundDatagram"
            /\ last'.arg[2] <= 0

C28_WatchOnlyOnlyNotifies ==
    [][\A i \in Ids :
          /\ last'.id = i
          /\ last'.op \in {"Read", "Write", "HandleError"}
          /\ desc[i].kind = "conn"
          /\ desc[i].bWatchOnly
          /\ desc[i].MySocket # INVALID_SOCKET
          /\ last'.op = "Write" =>
                ~desc[i].bConnectPending /\ desc[i].bNotifyWritable
          => /\ \A k \in 1..Len(trace') :
                   trace'[k].t \in {"EM_CONNECTION_NOTIFY_READABLE",
                                   "EM_CONNECTION_NOTIFY_WRITABLE"}
             /\ Count(trace', "EM_CONNECTION_NOTIFY_READABLE", i) =
                   (IF last'.op # "Write" /\ desc[i].bNotifyReadable
                    THEN 1 ELSE 0)
             /\ Count(trace', "EM_CONNECTION_NOTIFY_WRITABLE", i) =
                   (IF last'.op # "Read" /\ desc[i].bNotifyWritable
                    THEN 1 ELSE 0)
             /\ fault' = ""
             /\ desc'[i].OutboundPages = desc[i].OutboundPages
             /\ desc'[i].OutboundDataSize = desc[i].OutboundDataSize
             /\ desc'[i].LastActivity = desc[i].LastActivity
             /\ CloseState(desc'[i]) = CloseState(desc[i])
             /\ desc'[i].UnbindReasonCode = desc[i].UnbindReasonCode
             /\ desc'[i].MySocket = desc[i].MySocket
             /\ NumCloseScheduled' = NumCloseScheduled]_vars

\* an error report has just made a watch-only connection, idle for a while,
\* fire both notifications
C28_ErrorFiredBothNotifications ==
    /\ last.op = "HandleError"
    /\ desc[last.id].bWatchOnly
    /\ Count(trace, "EM_CONNECTION_NOTIFY_READABLE", last.id) = 1
    /\ Count(trace, "EM_CONNECTION_NOTIFY_WRITABLE", last.id) = 1
    /\ desc[last.id].LastActivity < now
    /\ ~IsCloseScheduled(desc[last.id])

----------------------------------------------------------------------------
(* One descriptor, the clock and the deadline of its next heartbeat. *)

\* how far the real time is ahead of the loop time when the deadline is
\* computed, microseconds
Lags == {0, 1000}

\* the timeouts set in this section, milliseconds
BeatTimeouts == 0..2

InitBeat ==
    \E d \in {Connecting(3), Accepted(3), DatagramDescriptor(3, 0)} :
        InitWith(<<d>>)

NextBeat ==
    \/ Tick
    \/ \E id \in Ids, v \in BeatTimeouts : AppSetCommInactivityTimeout(id, v)
    \/ \E id \in Ids, v \in BeatTimeouts : AppSetPendingConnectTimeout(id, v)
    \/ \E id \in Ids : AppScheduleClose(id, FALSE)
    \/ \E id \in Ids : WriteWake(id, 0, 0)
    \/ \E id \in Ids : ReadWake(id, <<1>>)
    \/ \E id \in Ids, lag \in Lags : NextHeartbeatWake(id, lag)
    \/ \E id \in Ids : HeartbeatWake(id)
    \/ \E id \in Ids : ReactorDestroy(id)

SpecBeat == InitBeat /\ [][NextBeat]_vars

\* the time left at time t of a timeout that started to run at time from
TimeLeft(from, timeout, t) ==
    IF from + timeout > t THEN from + timeout - t ELSE 0

\* the times left on the timeouts that apply to d at time t: the
\* pending-connect timeout while the connect is pending, the inactivity
\* timeout when one is set
TimesLeft(d, t) ==
    (IF d.bConnectPending
     THEN {TimeLeft(d.CreatedAt, d.PendingConnectTimeout, t)} ELSE {})
    \cup (IF d.InactivityTimeout # 0
          THEN {TimeLeft(d.LastActivity, d.InactivityTimeout, t)} ELSE {})

\* C29: GetNextHeartbeat returns 0 when the descriptor should be deleted or
\* no timeout applies; otherwise it returns the current time plus the least
\* of the times left on the timeouts that apply, and that value is the
\* descriptor's NextHeartbeat afterwards. The current time is the real time
\* the call reads; the times left are counted on the loop's clock, on which
\* the timeouts started to run.
C29_DeadlineIsTimeLeft ==
    [][\A i \in Ids :
          last'.id = i /\ last'.op = "GetNextHeartbeat"
          => /\ last'.arg[2] =
                   (IF ShouldDelete(desc[i]) \/ TimesLeft(desc[i], now) = {}
                    THEN 0
                    ELSE last'.arg[1] +
                         (CHOOSE x \in TimesLeft(desc[i], now) :
                            \A y \in TimesLeft(desc[i], now) : x <= y))
             /\ desc'[i].NextHeartbeat = last'.arg[2]]_vars

----------------------------------------------------------------------------
(* Two connections, the first proxying to the second, with a source the
   application pauses and a socket that has no room. *)

\* the thresholds the proxy is started with in this section
StallSizes == {0, 2}

\* what writev answers in this section
StallOutcomes == {0 - EAGAIN, 0 - EINTR, 0 - ECONNRESET, 1}

NextStall ==
    \/ \E id \in Sources, to \in Targets, b \in StallSizes :
            AppStartProxy(id, to, b, 0)
    \/ \E id \in Sources : AppStopProxy(id)
    \/ \E id \in Sources : AppPause(id)
    \/ \E id \in Sources : AppResume(id)
    \/ \E id \in Sources : ReadWake(id, <<1>>)
    \/ \E id \in Targets : queued[id] = <<>> /\ AppSend(id, 1)
    \/ \E id \in Targets : AppScheduleClose(id, TRUE)
    \/ \E id \in Targets, res \in StallOutcomes : WriteWake(id, 0, res)
    \/ now = 0 /\ Tick
    \/ \E id \in Ids : ReactorDestroy(id)

SpecStall == InitProxy /\ [][NextStall]_vars

\* the errors of a write that are no failure: would-block and interrupted
TransientWriteErrors == {EAGAIN, EINTR}

\* descriptor i's Write has just been answered a transient error by writev
TransientWrite(i) ==
    /\ last'.id = i
    /\ last'.op = "Write"
    /\ \E k \in 1..Len(trace') :
          /\ trace'[k].t = "writev"
          /\ trace'[k].d = i
          /\ trace'[k].n < 0
          /\ (0 - trace'[k].n) \in TransientWriteErrors

\* descriptor j is the proxy source that a Write of descriptor i resumes
ResumedBy(i, j) ==
    /\ desc[i].ProxiedFrom = j
    /\ desc[i].MaxOutboundBufSize # 0
    /\ desc[i].OutboundDataSize < desc[i].MaxOutboundBufSize
    /\ desc[j].bPaused

\* C30, as the specification states it: a Write whose writev is answered
\* would-block or interrupted changes nothing but the descriptor's
\* last-activity time: queue, offsets, byte count, close flags, unbind reason
\* and handle are as before, and write interest stays armed.
C30_TransientErrorChangesOnlyLastActivity ==
    [][\A i \in Ids :
          TransientWrite(i)
          => /\ desc' = [desc EXCEPT ![i].LastActivity = now]
             /\ desc'[i].epollOut
             /\ NumCloseScheduled' = NumCloseScheduled
             /\ fault' = ""
             /\ wire' = wire
             /\ queued' = queued]_vars

\* C30: a Write whose writev is answered would-block or interrupted changes
\* nothing of its descriptor but the last-activity time (queue, offsets, byte
\* count, close flags, unbind reason and handle are as before), write
\* interest stays armed, and no other descriptor changes, except that a
\* paused proxy source of this descriptor is resumed when the byte count is
\* under the threshold the proxy was started with.
C30_TransientErrorKeepsTheQueue ==
    [][\A i \in Ids :
          TransientWrite(i)
          => /\ desc'[i] = [desc[i] EXCEPT !.LastActivity = now]
             /\ desc'[i].epollOut
             /\ NumCloseScheduled' = NumCloseScheduled
             /\ fault' = ""
             /\ wire' = wire
             /\ queued' = queued
             /\ \A j \in Ids \ {i} :
                   IF ResumedBy(i, j)
                   THEN /\ ~desc'[j].bPaused
                        /\ Count(trace', "Resume", j) = 1
                        /\ \A f \in DOMAIN desc[j] \ {"bPaused", "epollIn",
                                                       "epollOut"} :
                              desc'[j][f] = desc[j][f]
                   ELSE desc'[j] = desc[j]]_vars

\* a writev answered would-block has just resumed the source the application
\* had paused, with the byte still queued and write interest armed
C30_StalledWriteResumedTheSource ==
    /\ last.op = "Write"
    /\ \E k \in 1..Len(trace) :
          trace[k].t = "writev" /\ trace[k].n = 0 - EAGAIN
    /\ Count(trace, "Resume", 1) = 1
    /\ desc[last.id].OutboundDataSize = 1
    /\ desc[last.id].epollOut
    /\ desc[last.id].LastActivity = now
    /\ now > 0

----------------------------------------------------------------------------
(* The poll interest of stream connections (Spec). *)

----------------------------------------------------------------------------
(* The drain loop of a connection that runs TLS (SpecTls). *)

\* the places in the events ev where descriptor i's drain loop pumped the
\* adaptor: a PutPlaintext that no plaintext of a send came with
Pumps(ev, i) ==
    {k \in 1..Len(ev) :
        /\ ev[k].d = i
        /\ ev[k].t = "w = PutPlaintext"
        /\ k > 1 => ev[k - 1].t # "PutPlaintext"}

\* the buffers of the pages from place n + 1 on
BuffersFrom(pages, n) ==
    [k \in 1..(Len(pages) - n) |-> pages[n + k].Buffer]

\* C32, as the specification states it: a call in which the drain loop ran
\* comes back with no ciphertext ready in the adaptor and a last pump that
\* made no progress, a fatal error of the pump included, and every chunk of
\* ciphertext taken from the adaptor in it has been appended to the outbound
\* queue, in the order the chunks were produced.
C32_DrainedChunksAreQueuedInOrder ==
    [][\A i \in Ids :
          /\ last'.id = i
          /\ desc'[i].SslBox
          /\ fault' = ""
          /\ Pumps(trace', i) # {}
          => /\ ~CanGetCiphertext(desc'[i])
             /\ \A k \in Pumps(trace', i) :
                   (\A m \in Pumps(trace', i) : m <= k) => trace'[k].n <= 0
             /\ Len(desc'[i].OutboundPages) >= Len(desc[i].OutboundPages)
             /\ BuffersFrom(desc'[i].OutboundPages, Len(desc[i].OutboundPages))
                   = [k \in 1..(desc'[i].Ssl.out - desc[i].Ssl.out) |->
                        <<desc[i].Ssl.out + k>>]]_vars

----------------------------------------------------------------------------
(* Bursts of reads: a connection with much to read, which proxies to a
   second one or not. *)

\* what the read() calls of one wake answer in this section: more chunks of
\* one byte than a wake reads, as many, one, two, a chunk of two bytes, an
\* interruption after a chunk, the end of the stream
BurstScripts ==
    {[k \in 1..n |-> 1] : n \in {1, 2, MaxBurst, MaxBurst + 1}}
        \cup {<<2>>, <<1, 0 - EINTR>>, <<0>>}

NextBurst ==
    \/ \E id \in Sources, to \in Targets, b \in BufSizes :
            AppStartProxy(id, to, b, 0)
    \/ \E id \in Sources : AppStopProxy(id)
    \/ \E id \in Sources : AppPause(id)
    \/ \E id \in Sources : AppResume(id)
    \/ \E id \in Sources, rs \in BurstScripts : ReadWake(id, rs)
    \/ \E id \in Targets, res \in {0 - EAGAIN, 1} : WriteWake(id, 0, res)
    \/ \E id \in Ids : ReactorDestroy(id)

SpecBurst == InitProxy /\ [][NextBurst]_vars

\* the places in the events ev of descriptor i's read() calls that gave a
\* chunk
Chunks(ev, i) == {k \in Places(ev, "read", i) : ev[k].n > 0}

\* the places in the events ev where a chunk of descriptor i was dispatched:
\* to the application or to the proxy target
Dispatches(ev, i) ==
    Places(ev, "EM_CONNECTION_READ", i) \cup Places(ev, "Forward", i)

\* C33: a Read of a stream connection calls read() at most 10 times; each
\* chunk a read() gave is dispatched at once, before the next read(), and by
\* itself; and once a dispatch has paused the connection no read() and no
\* dispatch follows in that wake.
C33_BurstIsBoundedAndStopsWhenPaused ==
    [][\A i \in Ids :
          /\ last'.id = i
          /\ last'.op = "Read"
          /\ desc[i].kind = "conn"
          /\ ~desc[i].bWatchOnly
          => /\ Count(trace', "read", i) <= MaxBurst
             /\ \A k \in Chunks(trace', i) :
                   /\ k < Len(trace')
                   /\ k + 1 \in Dispatches(trace', i)
                   /\ trace'[k + 1].data = trace'[k].data
             /\ Cardinality(Dispatches(trace', i)) =
                   Cardinality(Chunks(trace', i))
             /\ \A p \in Places(trace', "Pause", i) :
                   /\ \A k \in Places(trace', "read", i) : k < p
                   /\ \A k \in Dispatches(trace', i) : k < p
             /\ desc'[i].bPaused /\ Chunks(trace', i) # {} =>
                   \A k \in Places(trace', "read", i) : trace'[k].n > 0]_vars

\* the second chunk of a wake has just taken the proxy target over its
\* threshold: the connection is paused and was not read a third time
C33_PausedAfterSecondChunk ==
    /\ last.op = "Read"
    /\ Count(trace, "read", last.id) = 2
    /\ Count(trace, "Forward", last.id) = 2
    /\ Count(trace, "Pause", last.id) = 1
    /\ desc[last.id].bPaused

----------------------------------------------------------------------------
(* Sends once a close is scheduled (Spec). *)

\* what the send of the step returned
Sent == IF last'.op = "SendOutboundData" THEN last'.arg[2] ELSE last'.arg[3]

\* C34: on a stream or datagram descriptor on which a close, immediate or
\* after writing, is scheduled, a send (SendOutboundData on a connection
\* without TLS or on a datagram descriptor, SendOutboundDatagram) returns 0,
\* raises no fault and leaves the queue, the byte count and the registered
\* interest as they were; so does a send of no bytes on a stream connection.
C34_NoSendOnceCloseIsScheduled ==
    [][\A i \in Ids :
          /\ last'.id = i
          /\ last'.op \in {"SendOutboundData", "SendOutboundDatagram"}
          /\ desc[i].kind \in {"conn", "dgram"}
          /\ ~desc[i].SslBox
          /\ ~desc[i].bWatchOnly
          /\ \/ IsCloseScheduled(desc[i])
             \/ desc[i].kind = "conn" /\ last'.arg[1] = 0
          => /\ Sent = 0
             /\ fault' = ""
             /\ desc'[i].OutboundPages = desc[i].OutboundPages
             /\ desc'[i].OutboundDataSize = desc[i].OutboundDataSize
             /\ desc'[i].epollIn = desc[i].epollIn
             /\ desc'[i].epollOut = desc[i].epollOut
             /\ queued' = queued]_vars

\* a datagram for a named peer has just been refused by a descriptor that is
\* to close once the message it holds is written
C34_DatagramRefusedWhileClosing ==
    /\ last.op = "SendOutboundDatagram"
    /\ last.arg[2] > 0
    /\ last.arg[3] = 0
    /\ desc[last.id].bCloseAfterWriting
    /\ ~desc[last.id].bCloseNow
    /\ Len(desc[last.id].OutboundPages) = 1

----------------------------------------------------------------------------
(* The proxy relation (SpecBusy). *)

\* C35, as the specification states it: in every state the proxy relation is
\* symmetric and among live descriptors: a live descriptor records b as its
\* proxy target exactly when b records it as its source, and whatever a live
\* descriptor records as its target or its source is live.
C35_ProxyLinksAreMutual ==
    \A a \in Ids :
        desc[a].live =>
            /\ desc[a].ProxyTarget # NULL =>
                  /\ desc[desc[a].ProxyTarget].live
                  /\ desc[desc[a].ProxyTarget].ProxiedFrom = a
            /\ desc[a].ProxiedFrom # NULL =>
                  /\ desc[desc[a].ProxiedFrom].live
                  /\ desc[desc[a].ProxiedFrom].ProxyTarget = a

----------------------------------------------------------------------------
(* The Reactor's count of scheduled closes (Spec). *)

\* C36, as the specification states it: in every state the Reactor's
\* NumCloseScheduled is the number of live descriptors on which a close is
\* scheduled, and is not below zero; a descriptor destroyed because an I/O
\* error closed its handle, with no close scheduled, included.
C36_CounterCountsScheduledCloses ==
    /\ NumCloseScheduled =
          Cardinality({i \in Ids : desc[i].live /\ IsCloseScheduled(desc[i])})
    /\ NumCloseScheduled >= 0

----------------------------------------------------------------------------
(* Write always has something to send (Spec). *)

\* C37, as the specification states it: a Write the poller calls while the
\* write interest is registered, on a stream connection or a datagram
\* descriptor with a valid handle, never finds nothing to send: neither
\* assert (nbytes > 0) nor assert (OutboundPages.size() > 0) fails.
C37_WriteFindsSomethingToSend ==
    last.op \in {"Write", "DgWrite"} =>
        fault \notin {"assert (nbytes > 0)", "assert (OutboundPages.size() > 0)"}

\* a Write that reached writev, took one byte and left bytes queued
C37_FlushedPartOfTheQueue ==
    /\ last.op = "Write"
    /\ fault = ""
    /\ \E k \in 1..Len(trace) : trace[k].t = "writev" /\ trace[k].n = 1
    /\ desc[last.id].OutboundDataSize > 0
    /\ desc[last.id].epollOut

----------------------------------------------------------------------------
(* A connection that is closed after writing: it sends, and proxies its     *)
(* inbound data to a second connection with a threshold, which may be       *)
(* closed.  Both are woken whenever their write interest is armed, by a     *)
(* socket that takes a byte, and the Reactor deletes what is to be deleted. *)

\* a writable wake of descriptor id, whose socket takes one byte
DrainWake(id) == WriteWake(id, 0, 1)

NextDrain ==
    \/ \E id \in Sources : queued[id] = <<>> /\ BoundedSend(id, 2, LiveBytes)
    \/ \E id \in Sources : AppScheduleClose(id, TRUE)
    \/ \E id \in Targets : AppScheduleClose(id, FALSE)
    \/ \E id \in Sources, to \in Targets :
            desc[id].ProxyTarget = NULL /\ AppStartProxy(id, to, 1, 0)
    \/ \E id \in Sources :
            /\ desc[id].ProxyTarget # NULL
            /\ wire[desc[id].ProxyTarget] = <<>>
            /\ desc[desc[id].ProxyTarget].OutboundPages = <<>>
            /\ ReadWake(id, <<2>>)
    \/ \E id \in Sources \cup Targets : DrainWake(id)
    \/ \E id \in Sources \cup Targets : ReactorDestroy(id)

SpecDrain ==
    /\ InitProxy
    /\ [][NextDrain]_vars
    /\ \A id \in Sources \cup Targets :
          WF_vars(DrainWake(id)) /\ WF_vars(ReactorDestroy(id))

\* a close after writing is scheduled on the connection
ClosingAfterWriting == desc[1].live /\ desc[1].bCloseAfterWriting

\* the connection is to be deleted, or has been
Deletable == ~desc[1].live \/ ShouldDelete(desc[1])

\* C38, as the specification states it: a stream connection on which a close
\* after writing is scheduled is eventually to be deleted, when it is woken
\* whenever its interest is armed and its socket takes a byte or more at
\* every writable wake; also when its proxy target's backpressure pauses it
\* with bytes queued.
C38_CloseAfterWritingCompletes == ClosingAfterWriting ~> Deletable

----------------------------------------------------------------------------
(* The release of a source its target paused (SpecDrain, in which the       *)
(* target's backpressure is the only pause).                                *)

\* what made the target pause the source is gone: the target holds no more
\* than its threshold, or the link is no more, the target closing or deleted
CauseGone ==
    \/ desc[1].ProxyTarget = NULL
    \/ ~desc[2].live
    \/ IsCloseScheduled(desc[2])
    \/ desc[2].OutboundDataSize <= desc[2].MaxOutboundBufSize

\* a Read of the source that leaves it paused has added to the target's queue
PausedByWhatWasQueued ==
    last'.op = "Read" /\ ~desc[1].bPaused /\ desc'[1].bPaused =>
        desc'[2].OutboundDataSize > desc[2].OutboundDataSize

\* C39, as the specification states it: a source its target paused, once the
\* cause is gone, is eventually resumed with no call of the application
\* (or is deleted); and no forward that the target did not queue pauses the
\* source.
C39_BackpressureIsReleased ==
    /\ (desc[1].live /\ desc[1].bPaused /\ CauseGone)
           ~> (~desc[1].live \/ ~desc[1].bPaused)
    /\ [][PausedByWhatWasQueued]_vars

----------------------------------------------------------------------------
(* What is counted as proxied and what the target queued (SpecStall). *)

\* the bytes a step adds to the target's outbound queue
QueuedByTarget == desc'[2].OutboundDataSize - desc[2].OutboundDataSize

\* C40, as the specification states it: what a Read of the source adds to
\* its ProxiedBytes is what the target added to its outbound queue, so that
\* the total, which StartProxy sets to 0, is the number of bytes the target
\* queued from this source; a target with a close scheduled included.
C40_ProxiedBytesAreQueued ==
    [][last'.op = "Read" /\ last'.id = 1 /\ fault' = "" =>
          desc'[1].ProxiedBytes - desc[1].ProxiedBytes = QueuedByTarget]_vars

====
